---- MODULE Spec2Model ----
(***************************************************************************)
(* A model of claude-code-api: the OpenAI-compatible chat-completion       *)
(* endpoint (src/src/routes/openai.py), the backend interface that runs    *)
(* the CLI and reads its line-delimited JSON events                        *)
(* (src/src/claude_interface.py) and the SQLite session store              *)
(* (src/src/database.py).                                                  *)
(*                                                                         *)
(* Python dicts are records whose optional keys may be missing; Get is     *)
(* dict.get.  Python None is Null where a string is expected.  Texts are   *)
(* strings, concatenated with \o.                                          *)
(***************************************************************************)
EXTENDS Integers, Sequences, FiniteSets, TLC

VARIABLES
    now,        \* the wall clock, in ticks of UTC time
    tz,         \* the server's local time zone: local time = now + tz
    sessions,   \* table sessions: id -> [claude_session_id, last_accessed, expires_at]
    messages,   \* table messages: the rows in rowid order
    req,        \* the request being handled: its inputs, locals and response
    turns,      \* requests received so far
    expected,   \* per session: the rows its completed turns should have left
    clean,      \* per session: every turn so far completed successfully
    env,        \* which inputs the environment draws from, fixed at the start
    h,          \* the event-stream interpreter run alone on one backend output
    disclosed   \* the session ids a response has carried in X-Session-ID

vars == <<now, tz, sessions, messages, req, turns, expected, clean, env, h, disclosed>>

(***************************************************************************)
(* Bounds of the model.                                                    *)
(***************************************************************************)
MaxTurns == 2       \* requests per behaviour
MaxClock == 3       \* the clock stops ticking here
DayLen == 3         \* ticks per calendar day (24 hours)
MaxLines == 3       \* lines of backend output, when the interpreter runs alone
MaxMessages == 3    \* messages of a list, when the translator runs alone
MaxWait == 3        \* ticks a blocking call is watched for

(***************************************************************************)
(* Python values.                                                          *)
(***************************************************************************)
Null == "None"
EmptyDict == <<>>
NoResultData == [is_none |-> TRUE]

Get(d, k, default) == IF k \in DOMAIN d THEN d[k] ELSE default

Truthy(x) == x # Null /\ x # ""

(***************************************************************************)
(* Backend output.  A line of standard output either parses as a JSON      *)
(* object (json = TRUE, obj the parsed dict) or does not (a blank or       *)
(* malformed line).                                                        *)
(***************************************************************************)
Malformed == [json |-> FALSE]

JsonLine(o) == [json |-> TRUE, obj |-> o]

TextBlock(t) == [type |-> "text", text |-> t]

ToolBlock == [type |-> "tool_use", name |-> "Bash"]

InitEvent(sid) == [type |-> "system", subtype |-> "init", session_id |-> sid]

AssistantEvent(blocks) == [type |-> "assistant", message |-> [content |-> blocks]]

AssistantEventSid(blocks, sid) ==
    [type |-> "assistant", message |-> [content |-> blocks], session_id |-> sid]

ResultEvent(err, text, sid) ==
    [type |-> "result", is_error |-> err, result |-> text,
     usage |-> [input_tokens |-> 10, output_tokens |-> 8], session_id |-> sid]

ResultEventNoSid(err, text) ==
    [type |-> "result", is_error |-> err, result |-> text,
     usage |-> [input_tokens |-> 3, output_tokens |-> 4]]

ChunkType(chunk) == Get(chunk, "type", Null)

IsResult(line) == line.json /\ ChunkType(line.obj) = "result"

(***************************************************************************)
(* ClaudeCodeInterface.complete_chat, lines 240-285: the exit code, then   *)
(* the loop over the output lines, then the result checks.  Every error    *)
(* raised inside the try block is re-raised by the last handler with the   *)
(* prefix "Claude execution failed: ".                                     *)
(***************************************************************************)
\* ParseOutputLines with a plausible slip: a line that does not parse ends
\* the loop instead of being skipped.
RECURSIVE ParseOutputLinesUntilMalformed(_, _, _)
ParseOutputLinesUntilMalformed(lines, result_data, claude_session_id) ==
    IF lines = <<>> \/ ~Head(lines).json
    THEN [result_data |-> result_data, claude_session_id |-> claude_session_id]
    ELSE LET line == Head(lines)
             rest == Tail(lines)
         IN  IF ChunkType(line.obj) = "result"
             THEN ParseOutputLinesUntilMalformed(rest, line.obj,
                                                 Get(line.obj, "session_id", Null))
             ELSE IF ChunkType(line.obj) = "system"
                     /\ Get(line.obj, "subtype", Null) = "init"
                     /\ ~Truthy(claude_session_id)
             THEN ParseOutputLinesUntilMalformed(rest, result_data,
                                                 Get(line.obj, "session_id", Null))
             ELSE ParseOutputLinesUntilMalformed(rest, result_data, claude_session_id)

RECURSIVE ParseOutputLines(_, _, _)
ParseOutputLines(lines, result_data, claude_session_id) ==
    IF lines = <<>>
    THEN [result_data |-> result_data, claude_session_id |-> claude_session_id]
    ELSE LET line == Head(lines)
             rest == Tail(lines)
         IN  IF ~line.json
             THEN ParseOutputLines(rest, result_data, claude_session_id)
             ELSE IF ChunkType(line.obj) = "result"
             THEN ParseOutputLines(rest, line.obj, Get(line.obj, "session_id", Null))
             ELSE IF ChunkType(line.obj) = "system"
                     /\ Get(line.obj, "subtype", Null) = "init"
                     /\ ~Truthy(claude_session_id)
             THEN ParseOutputLines(rest, result_data, Get(line.obj, "session_id", Null))
             ELSE ParseOutputLines(rest, result_data, claude_session_id)

Raised(msg) == [ok |-> FALSE, error |-> "Claude execution failed: " \o msg]

\* The dict complete_chat returns on success (lines 269-271).
ResultDict(parsed) ==
    [k \in DOMAIN parsed.result_data \cup {"claude_session_id"} |->
        IF k = "claude_session_id"
        THEN parsed.claude_session_id
        ELSE parsed.result_data[k]]

\* InterpretOutput with a plausible slip: the output is read first and the
\* exit code is looked at only when no result event was printed.
InterpretOutputResultFirst(run) ==
    LET parsed == ParseOutputLines(run.lines, NoResultData, Null)
        result_data == parsed.result_data
    IN  IF result_data = NoResultData
        THEN IF run.rc # 0
             THEN Raised("Claude command failed: " \o run.stderr)
             ELSE Raised("No result found in Claude output")
        ELSE IF Get(result_data, "is_error", FALSE)
        THEN Raised("Claude returned error: "
                    \o Get(result_data, "result", "Unknown error"))
        ELSE [ok |-> TRUE, result |-> ResultDict(parsed)]

\* InterpretOutput with a plausible slip: is_error is not looked at.
InterpretOutputTrustingResult(run) ==
    IF run.rc # 0
    THEN Raised("Claude command failed: " \o run.stderr)
    ELSE LET parsed == ParseOutputLines(run.lines, NoResultData, Null)
         IN  IF parsed.result_data = NoResultData
             THEN Raised("No result found in Claude output")
             ELSE [ok |-> TRUE, result |-> ResultDict(parsed)]

InterpretOutput(run) ==
    IF run.rc # 0
    THEN Raised("Claude command failed: " \o run.stderr)
    ELSE LET parsed == ParseOutputLines(run.lines, NoResultData, Null)
             result_data == parsed.result_data
         IN  IF result_data = NoResultData
             THEN Raised("No result found in Claude output")
             ELSE IF Get(result_data, "is_error", FALSE)
             THEN Raised("Claude returned error: "
                         \o Get(result_data, "result", "Unknown error"))
             ELSE [ok |-> TRUE, result |-> ResultDict(parsed)]

(***************************************************************************)
(* complete_chat_with_session, lines 124-143: the response body built      *)
(* from the dict complete_chat returned.                                   *)
(***************************************************************************)
\* Usage with a plausible slip: the backend's usage read under OpenAI's key names.
UsageOpenAIKeys(result) ==
    LET usage == Get(result, "usage", EmptyDict)
    IN  [prompt_tokens |-> Get(usage, "prompt_tokens", 0),
         completion_tokens |-> Get(usage, "completion_tokens", 0),
         total_tokens |-> Get(usage, "prompt_tokens", 0)
                          + Get(usage, "completion_tokens", 0)]

Usage(result) ==
    LET usage == Get(result, "usage", EmptyDict)
    IN  [prompt_tokens |-> Get(usage, "input_tokens", 0),
         completion_tokens |-> Get(usage, "output_tokens", 0),
         total_tokens |-> Get(usage, "input_tokens", 0) + Get(usage, "output_tokens", 0)]

ResponseContent(result) == Get(result, "result", "")

ChatCompletionResponse(result) ==
    [content |-> ResponseContent(result), finish_reason |-> "stop",
     usage |-> Usage(result)]

(***************************************************************************)
(* ClaudeCodeInterface.stream_chat, lines 311-320: the chunks it yields    *)
(* are the lines that parse, in order; the others are skipped.             *)
(***************************************************************************)
RECURSIVE StreamChunks(_)
StreamChunks(lines) ==
    IF lines = <<>> THEN <<>>
    ELSE IF Head(lines).json
         THEN <<Head(lines).obj>> \o StreamChunks(Tail(lines))
         ELSE StreamChunks(Tail(lines))

(***************************************************************************)
(* stream_chat_completion_with_session, lines 161-206: what one chunk does *)
(* to the generator's locals.  st = [buffer, frames, stored, stopped,      *)
(* pending]: frames are the frames the generator has yielded, pending the  *)
(* frames of the chunk in hand that it has yet to yield, one at a time.    *)
(***************************************************************************)
DeltaFrame(text) == [kind |-> "delta", content |-> text]

TerminalFrame == [kind |-> "terminal", finish_reason |-> "stop"]

DoneFrame == [kind |-> "done"]

ErrorFrame(msg) == [kind |-> "error", message |-> "Streaming failed: " \o msg]

StreamInit ==
    [buffer |-> "", frames |-> <<>>, stored |-> FALSE, stopped |-> FALSE,
     pending |-> <<>>]

\* StoresSessionId with a plausible slip: the token fetched before is not consulted.
StoresSessionIdUnguarded(st, chunk, claude_session_id) ==
    /\ ~st.stored
    /\ Truthy(Get(chunk, "session_id", Null))

StoresSessionId(st, chunk, claude_session_id) ==
    /\ ~st.stored
    /\ Truthy(Get(chunk, "session_id", Null))
    /\ ~Truthy(claude_session_id)

\* EmitBlocks with a plausible slip: the texts of an event are sent as one delta.
RECURSIVE BlocksText(_)
BlocksText(blocks) ==
    IF blocks = <<>> THEN ""
    ELSE (IF Get(Head(blocks), "type", Null) = "text"
          THEN Get(Head(blocks), "text", "") ELSE "")
         \o BlocksText(Tail(blocks))

EmitBlocksBatched(st, blocks) ==
    IF BlocksText(blocks) = "" THEN st
    ELSE [st EXCEPT !.pending = Append(@, DeltaFrame(BlocksText(blocks)))]

RECURSIVE EmitBlocks(_, _)
EmitBlocks(st, blocks) ==
    IF blocks = <<>> THEN st
    ELSE LET b == Head(blocks)
             text == Get(b, "text", "")
         IN  IF Get(b, "type", Null) = "text" /\ Truthy(text)
             THEN EmitBlocks([st EXCEPT !.pending = Append(@, DeltaFrame(text))],
                             Tail(blocks))
             ELSE EmitBlocks(st, Tail(blocks))

\* HandleChunk with a plausible slip: the loop is not left at the result event.
HandleChunkNoBreak(st, chunk) ==
    IF ChunkType(chunk) = "assistant"
    THEN EmitBlocks(st, Get(Get(chunk, "message", EmptyDict), "content", <<>>))
    ELSE IF ChunkType(chunk) = "result"
    THEN [st EXCEPT !.pending = @ \o <<TerminalFrame, DoneFrame>>]
    ELSE st

HandleChunk(st, chunk) ==
    IF ChunkType(chunk) = "assistant"
    THEN EmitBlocks(st, Get(Get(chunk, "message", EmptyDict), "content", <<>>))
    ELSE IF ChunkType(chunk) = "result"
    THEN [st EXCEPT !.pending = @ \o <<TerminalFrame, DoneFrame>>, !.stopped = TRUE]
    ELSE st

\* The generator runs to its next yield: the frame goes out, and a delta's
\* text has been added to content_buffer just before (lines 172-188).
YieldFrame(st) ==
    LET frame == Head(st.pending)
    IN  [st EXCEPT !.pending = Tail(@),
                   !.frames = Append(@, frame),
                   !.buffer = IF frame.kind = "delta" THEN @ \o frame.content ELSE @]

RECURSIVE DeltaText(_)
DeltaText(frames) ==
    IF frames = <<>> THEN ""
    ELSE (IF Head(frames).kind = "delta" THEN Head(frames).content ELSE "")
         \o DeltaText(Tail(frames))

(***************************************************************************)
(* Time.  SQLite's CURRENT_TIMESTAMP is the UTC time as the text           *)
(* "YYYY-MM-DD HH:MM:SS"; datetime.now().isoformat() is the server's       *)
(* local time as "YYYY-MM-DDTHH:MM:SS.ffffff".  A timestamp is its date,   *)
(* the separator character and the time of day; columns of type TIMESTAMP  *)
(* hold text and SQLite compares them as text, character by character.     *)
(*                                                                         *)
(* Time is counted in ticks, DayLen to the day.  The server's offset from  *)
(* UTC is a whole number of ticks; with whole ticks an offset of two ticks *)
(* is the least that shows what any negative offset does in seconds.       *)
(***************************************************************************)
TimeZones == {-2, 0}

SqlTimestamp(t) == [date |-> t \div DayLen, sep |-> " ", time |-> t % DayLen]

IsoFormat(t) == [date |-> t \div DayLen, sep |-> "T", time |-> t % DayLen]

CurrentTimestamp == SqlTimestamp(now)

DatetimeNow == now + tz

CharCode(c) == IF c = "T" THEN 84 ELSE 32

TextGreater(a, b) ==
    \/ a.date > b.date
    \/ /\ a.date = b.date
       /\ \/ CharCode(a.sep) > CharCode(b.sep)
          \/ a.sep = b.sep /\ a.time > b.time

Instant(ts) == ts.date * DayLen + ts.time

(***************************************************************************)
(* SessionService, src/src/database.py.                                    *)
(***************************************************************************)
Uuids == <<"uuid-1", "uuid-2", "uuid-3", "uuid-4">>

\* A fresh id: one no session has had, whichever rows have been deleted since.
Uuid4 == Uuids[Cardinality(DOMAIN expected) + 1]

ExpiresTicks == DayLen

\* create_session, line 61: the expiry, read from the server's clock before
\* the connection to the store is awaited.
ExpiresAt == IsoFormat(DatetimeNow + ExpiresTicks)

\* The row the INSERT of lines 64-67 writes: expires_at is the value computed
\* before, last_accessed defaults to CURRENT_TIMESTAMP as the statement runs.
SessionRow(expires_at) ==
    [claude_session_id |-> Null,
     last_accessed |-> CurrentTimestamp,
     expires_at |-> expires_at]

InsertSession(id, expires_at) ==
    [k \in DOMAIN sessions \cup {id} |->
        IF k = id THEN SessionRow(expires_at) ELSE sessions[k]]

\* session_exists with a plausible slip: any id presented is taken as a session.
session_exists_unchecked(session_id) == Truthy(session_id)

session_exists(session_id) ==
    /\ session_id \in DOMAIN sessions
    /\ TextGreater(sessions[session_id].expires_at, CurrentTimestamp)

\* cleanup_expired_sessions, lines 105-111: the rows whose expires_at is not
\* after CURRENT_TIMESTAMP, as text, are deleted.  Foreign keys are not
\* enforced on the connection, so the messages of a deleted session stay.
\* No route calls it; it is the store's maintenance operation.
cleanup_expired_sessions ==
    [k \in {sid \in DOMAIN sessions :
               TextGreater(sessions[sid].expires_at, CurrentTimestamp)} |-> sessions[k]]

TouchSession(session_id) ==
    IF session_id \in DOMAIN sessions
    THEN [sessions EXCEPT ![session_id].last_accessed = CurrentTimestamp]
    ELSE sessions

\* InsertByTimestamp with a plausible slip: a row goes before the rows of its own second.
RECURSIVE InsertBeforeTies(_, _)
InsertBeforeTies(sorted, row) ==
    IF sorted = <<>> THEN <<row>>
    ELSE IF ~TextGreater(row.timestamp, Head(sorted).timestamp)
         THEN <<row>> \o sorted
         ELSE <<Head(sorted)>> \o InsertBeforeTies(Tail(sorted), row)

RECURSIVE InsertByTimestamp(_, _)
InsertByTimestamp(sorted, row) ==
    IF sorted = <<>> THEN <<row>>
    ELSE IF TextGreater(Head(sorted).timestamp, row.timestamp)
         THEN <<row>> \o sorted
         ELSE <<Head(sorted)>> \o InsertByTimestamp(Tail(sorted), row)

RECURSIVE OrderByTimestamp(_)
OrderByTimestamp(rows) ==
    IF rows = <<>> THEN <<>>
    ELSE InsertByTimestamp(OrderByTimestamp(SubSeq(rows, 1, Len(rows) - 1)),
                           rows[Len(rows)])

SessionRows(session_id) ==
    OrderByTimestamp(SelectSeq(messages, LAMBDA r: r.session_id = session_id))

Str(s) == [str |-> s]

Parts(ps) == [list |-> ps]

IsStr(content) == "str" \in DOMAIN content

ChatMessage(role, content) == [role |-> role, content |-> content]

RECURSIVE RowsToMessages(_)
RowsToMessages(rows) ==
    IF rows = <<>> THEN <<>>
    ELSE <<ChatMessage(Head(rows).role, Str(Head(rows).content))>>
         \o RowsToMessages(Tail(rows))

get_session_messages(session_id) == RowsToMessages(SessionRows(session_id))

add_message(session_id, role, content) ==
    Append(messages, [session_id |-> session_id, role |-> role,
                      content |-> content, timestamp |-> CurrentTimestamp])

get_claude_session_id(session_id) ==
    IF session_id \in DOMAIN sessions
    THEN sessions[session_id].claude_session_id
    ELSE Null

set_claude_session_id(session_id, claude_session_id) ==
    IF session_id \in DOMAIN sessions
    THEN [sessions EXCEPT ![session_id].claude_session_id = claude_session_id]
    ELSE sessions

(***************************************************************************)
(* The text a submitted message is stored as: routes/openai.py, lines      *)
(* 100-117 and 209-226.                                                    *)
(***************************************************************************)
RECURSIVE ContentText(_)
ContentText(items) ==
    IF items = <<>> THEN ""
    ELSE LET item == Head(items)
         IN  (IF item.type = "text" THEN item.text
              ELSE IF item.type = "image_url" THEN "[Image]"
              ELSE "")
             \o ContentText(Tail(items))

ContentForStorage(content) ==
    IF IsStr(content) THEN content.str
    ELSE IF ContentText(content.list) # "" THEN ContentText(content.list)
    ELSE "[Mixed Content]"

(***************************************************************************)
(* Model names, src/src/models/config.py.                                  *)
(***************************************************************************)
SUPPORTED_MODELS ==
    {"sonnet", "opus", "claude-sonnet-4-20250514", "claude-opus-3-20240229"}

\* validate_model with a plausible slip: every name is let through.
validate_model_any(requested_model) == TRUE

validate_model(requested_model) == requested_model \in SUPPORTED_MODELS

ModelNotSupported(requested_model) ==
    "Model '" \o requested_model \o "' is not supported. Supported models: "
    \o "sonnet, opus, claude-sonnet-4-20250514, claude-opus-3-20240229"

(***************************************************************************)
(* Image references, claude_interface.py lines 55-105.  A URL is the       *)
(* sequence of its tokens ("data:", "image/", "png", ";", "base64", ",",   *)
(* the payload, ...); startswith, split and replace act on whole tokens.   *)
(* fetch is what the network answers to a GET of a remote URL.             *)
(***************************************************************************)
IndexOf(s, tok) ==
    IF \E i \in 1..Len(s) : s[i] = tok
    THEN CHOOSE i \in 1..Len(s) : s[i] = tok /\ \A j \in 1..(i - 1) : s[j] # tok
    ELSE 0

StartsWith(s, tok) == Len(s) > 0 /\ s[1] = tok

EndsWith(s, tok) == Len(s) > 0 /\ s[Len(s)] = tok

Failed(msg) == [ok |-> FALSE, error |-> msg]

\* The text of a token sequence, as an f-string prints it.
RECURSIVE JoinTokens(_)
JoinTokens(toks) == IF toks = <<>> THEN "" ELSE Head(toks) \o JoinTokens(Tail(toks))

\* What str.split(',', 1) unpacked into two names raises without a comma.
UnpackError == "not enough values to unpack (expected 2, got 1)"

\* _extract_base64_from_data_url with a plausible slip: the media type is not validated.
_extract_base64_unvalidated(data_url) ==
    IF ~StartsWith(data_url, "data:")
    THEN Failed("Invalid data URL format")
    ELSE LET comma == IndexOf(data_url, ",")
             header == SubSeq(data_url, 1, comma - 1)
             semi == IndexOf(header, ";")
             first == IF semi = 0 THEN header ELSE SubSeq(header, 1, semi - 1)
         IN  IF comma = 0
             THEN Failed("Invalid data URL format: " \o UnpackError)
             ELSE [ok |-> TRUE, data |-> SubSeq(data_url, comma + 1, Len(data_url)),
                   media_type |-> SelectSeq(first, LAMBDA t : t # "data:"),
                   fetched |-> FALSE]

_extract_base64_from_data_url(data_url) ==
    IF ~StartsWith(data_url, "data:")
    THEN Failed("Invalid data URL format")
    ELSE LET comma == IndexOf(data_url, ",")
             header == SubSeq(data_url, 1, comma - 1)
             data == SubSeq(data_url, comma + 1, Len(data_url))
             semi == IndexOf(header, ";")
             first == IF semi = 0 THEN header ELSE SubSeq(header, 1, semi - 1)
             media_type_part == SelectSeq(first, LAMBDA t : t # "data:")
         IN  IF comma = 0
             THEN Failed("Invalid data URL format: " \o UnpackError)
             ELSE IF ~StartsWith(media_type_part, "image/")
             THEN Failed("Invalid data URL format: Unsupported media type: "
                         \o JoinTokens(media_type_part))
             ELSE [ok |-> TRUE, data |-> data, media_type |-> media_type_part,
                   fetched |-> FALSE]

\* str.lower on a token: the extensions are the tokens written in capitals.
LowerToken(tok) ==
    CASE tok = ".PNG" -> ".png"
      [] tok = ".JPG" -> ".jpg"
      [] tok = ".JPEG" -> ".jpeg"
      [] tok = ".GIF" -> ".gif"
      [] tok = ".WEBP" -> ".webp"
      [] OTHER -> tok

Lower(url) == [i \in 1..Len(url) |-> LowerToken(url[i])]

ExtensionMediaType(url) ==
    IF EndsWith(Lower(url), ".png") THEN <<"image/", "png">>
    ELSE IF EndsWith(Lower(url), ".jpg") \/ EndsWith(Lower(url), ".jpeg")
    THEN <<"image/", "jpeg">>
    ELSE IF EndsWith(Lower(url), ".gif") THEN <<"image/", "gif">>
    ELSE IF EndsWith(Lower(url), ".webp") THEN <<"image/", "webp">>
    ELSE <<"image/", "jpeg">>

Base64(body) == <<"base64-of", body>>

\* The HTTP client refuses a URL that names no http or https scheme before
\* anything is sent; the text is the client library's.
UnsupportedProtocol == "Request URL is missing an 'http://' or 'https://' protocol."

HasHttpScheme(url) == StartsWith(url, "http:") \/ StartsWith(url, "https:")

_download_image_as_base64(url, fetch) ==
    IF ~HasHttpScheme(url)
    THEN [ok |-> FALSE, error |-> "Failed to download image: " \o UnsupportedProtocol,
          fetched |-> FALSE]
    ELSE IF ~fetch.ok
    THEN [ok |-> FALSE, error |-> "Failed to download image: " \o fetch.error,
          fetched |-> TRUE]
    ELSE [ok |-> TRUE, data |-> Base64(fetch.body),
          media_type |-> IF StartsWith(fetch.content_type, "image/")
                         THEN fetch.content_type
                         ELSE ExtensionMediaType(url),
          fetched |-> TRUE]

\* ResolveImage with a plausible slip: every reference is downloaded.
ResolveImageByDownload(url, fetch) == _download_image_as_base64(url, fetch)

ResolveImage(url, fetch) ==
    IF StartsWith(url, "data:")
    THEN _extract_base64_from_data_url(url)
    ELSE _download_image_as_base64(url, fetch)

(***************************************************************************)
(* _convert_content_to_claude_format, lines 107-171, and                   *)
(* _format_messages_as_json, lines 173-215.  requests lists the URLs the   *)
(* conversion asked the network for, in order.                             *)
(***************************************************************************)
RECURSIVE ConvertItems(_, _)
ConvertItems(items, fetch) ==
    IF items = <<>> THEN [ok |-> TRUE, blocks |-> <<>>, requests |-> <<>>]
    ELSE LET item == Head(items)
             rest == ConvertItems(Tail(items), fetch)
         IN  IF item.type = "text"
             THEN IF rest.ok
                  THEN [rest EXCEPT !.blocks = <<TextBlock(Get(item, "text", ""))>> \o @]
                  ELSE rest
             ELSE IF item.type = "image_url"
             THEN LET url == Get(item.image_url, "url", <<>>)
                      img == ResolveImage(url, fetch)
                      mine == IF Get(img, "fetched", FALSE) THEN <<url>> ELSE <<>>
                  IN  IF ~img.ok
                      THEN [ok |-> FALSE, error |-> img.error, requests |-> mine]
                      ELSE IF rest.ok
                      THEN [ok |-> TRUE,
                            blocks |-> <<[type |-> "image",
                                          source |-> [type |-> "base64",
                                                      media_type |-> img.media_type,
                                                      data |-> img.data]]>>
                                       \o rest.blocks,
                            requests |-> mine \o rest.requests]
                      ELSE [rest EXCEPT !.requests = mine \o @]
             ELSE rest

_convert_content_to_claude_format(content, fetch) ==
    IF IsStr(content)
    THEN [ok |-> TRUE, blocks |-> <<TextBlock(content.str)>>, requests |-> <<>>]
    ELSE ConvertItems(content.list, fetch)

\* SystemText with a plausible slip: the scan stops at the first text part.
RECURSIVE SystemTextFirstPart(_)
SystemTextFirstPart(items) ==
    IF items = <<>> THEN ""
    ELSE IF Head(items).type = "text" THEN Head(items).text
    ELSE SystemTextFirstPart(Tail(items))

RECURSIVE SystemText(_)
SystemText(items) ==
    IF items = <<>> THEN ""
    ELSE (IF Head(items).type = "text" THEN Head(items).text ELSE "")
         \o SystemText(Tail(items))

\* LastWithRole with a plausible slip: the list is not scanned in reverse.
FirstWithRole(msgs, role) ==
    IF \E i \in 1..Len(msgs) : msgs[i].role = role
    THEN CHOOSE i \in 1..Len(msgs) :
            msgs[i].role = role /\ \A j \in 1..(i - 1) : msgs[j].role # role
    ELSE 0

LastWithRole(msgs, role) ==
    IF \E i \in 1..Len(msgs) : msgs[i].role = role
    THEN CHOOSE i \in 1..Len(msgs) :
            msgs[i].role = role /\ \A j \in (i + 1)..Len(msgs) : msgs[j].role # role
    ELSE 0

EmptyInput == [ok |-> TRUE, empty |-> TRUE, requests |-> <<>>]

\* _format_messages_as_json with a plausible slip: a failed conversion is
\* swallowed and gives the empty document.
_format_messages_swallowing(msgs, fetch) ==
    LET u == LastWithRole(msgs, "user")
        s == LastWithRole(msgs, "system")
        conv == _convert_content_to_claude_format(msgs[u].content, fetch)
        user_obj == [type |-> "user",
                     message |-> [role |-> "user", content |-> conv.blocks]]
    IN  IF u = 0 \/ ~conv.ok THEN EmptyInput
        ELSE [ok |-> TRUE, empty |-> FALSE, requests |-> conv.requests,
              doc |-> IF s = 0 THEN user_obj
                      ELSE [k \in DOMAIN user_obj \cup {"system"} |->
                              IF k # "system" THEN user_obj[k]
                              ELSE IF IsStr(msgs[s].content)
                                   THEN msgs[s].content.str
                                   ELSE SystemText(msgs[s].content.list)]]

_format_messages_as_json(msgs, fetch) ==
    LET u == LastWithRole(msgs, "user")
        s == LastWithRole(msgs, "system")
        conv == _convert_content_to_claude_format(msgs[u].content, fetch)
        user_obj == [type |-> "user",
                     message |-> [role |-> "user", content |-> conv.blocks]]
    IN  IF u = 0 THEN EmptyInput
        ELSE IF ~conv.ok THEN conv
        ELSE [ok |-> TRUE, empty |-> FALSE, requests |-> conv.requests,
              doc |-> IF s = 0 THEN user_obj
                      ELSE [k \in DOMAIN user_obj \cup {"system"} |->
                              IF k # "system" THEN user_obj[k]
                              ELSE IF IsStr(msgs[s].content)
                                   THEN msgs[s].content.str
                                   ELSE SystemText(msgs[s].content.list)]]

(***************************************************************************)
(* _build_command, lines 20-40, with JSON input.                           *)
(***************************************************************************)
\* _build_command with a plausible slip: the resume flag is never added.
_build_command_fresh(model, claude_session_id) ==
    <<"claude", "--model", model>>
    \o <<"--input-format", "stream-json", "--print", "--output-format",
         "stream-json", "--verbose">>

_build_command(model, claude_session_id) ==
    <<"claude", "--model", model>>
    \o (IF Truthy(claude_session_id) THEN <<"--resume", claude_session_id>> ELSE <<>>)
    \o <<"--input-format", "stream-json", "--print", "--output-format",
         "stream-json", "--verbose">>

(***************************************************************************)
(* The inputs: what a client may send and what a backend run may print.    *)
(***************************************************************************)
Procs == {1}

NoHeader == Null

Models == {"sonnet", "unknown-model"}

PngDataUrl == <<"data:", "image/", "png", ";", "base64", ",", "AAAA">>

MessageLists ==
    {<<ChatMessage("user", Str("Hello"))>>,
     <<ChatMessage("system", Str("Be brief")),
       ChatMessage("user", Parts(<<[type |-> "text", text |-> "Look"],
                                   [type |-> "image_url",
                                    image_url |-> [url |-> PngDataUrl]]>>))>>}

NoFetch == [ok |-> FALSE, error |-> "connection refused"]

Fetches ==
    {NoFetch,
     [ok |-> TRUE, content_type |-> <<"image/", "gif">>, body |-> "bytes"],
     [ok |-> TRUE, content_type |-> <<"text/", "html">>, body |-> "bytes"]}

TextDataUrl == <<"data:", "text/", "plain", ";", "base64", ",", "AAAA">>

SvgDataUrl == <<"data:", "image/", "svg+xml", ",", "<svg", ";", "/>">>

ParamDataUrl ==
    <<"data:", "image/", "png", ";", "name=a", ";", "base64", ",", "AA", ",", ";", "AA">>

NoCommaDataUrl == <<"data:", "image/", "png", ";", "base64">>

RemoteUrl == <<"https:", "//example.com/cat", ".png">>

UpperRemoteUrl == <<"http:", "//h/a", ".PNG">>

\* The url of an image part that carries none: image_url_data.get("url", "").
EmptyUrl == <<>>

BareDataUrl == <<"data:", ",", "AAAA">>

ImageUrls ==
    {PngDataUrl, TextDataUrl, SvgDataUrl, ParamDataUrl, NoCommaDataUrl, RemoteUrl,
     UpperRemoteUrl, EmptyUrl, BareDataUrl}

ImagePart(url) == [type |-> "image_url", image_url |-> [url |-> url]]

TextPart(text) == [type |-> "text", text |-> text]

\* Lists whose last user message holds an image: inline and valid, inline
\* and not an image, remote, and remote followed by an invalid inline one.
ImageLists ==
    {<<ChatMessage("user", Parts(<<TextPart("Look"), ImagePart(url)>>))>> :
        url \in {PngDataUrl, TextDataUrl, RemoteUrl}}
    \cup {<<ChatMessage("user", Parts(<<ImagePart(RemoteUrl), ImagePart(NoCommaDataUrl)>>))>>}

NoRun == [lines |-> <<>>, rc |-> 0, stderr |-> ""]

RunOk ==
    [lines |-> <<JsonLine(InitEvent("cli-1")),
                 JsonLine(AssistantEvent(<<TextBlock("Hi")>>)),
                 JsonLine(ResultEvent(FALSE, "Hi", "cli-1"))>>,
     rc |-> 0, stderr |-> ""]

RunExit1 ==
    [lines |-> <<JsonLine(InitEvent("cli-1")),
                 JsonLine(AssistantEvent(<<TextBlock("Hi")>>))>>,
     rc |-> 1, stderr |-> "boom"]

BackendRuns ==
    {RunOk, RunExit1,
     [lines |-> <<JsonLine(InitEvent("cli-2")),
                  JsonLine(AssistantEvent(<<TextBlock("A"), ToolBlock>>)),
                  Malformed,
                  JsonLine(AssistantEvent(<<TextBlock("B")>>)),
                  JsonLine(ResultEvent(FALSE, "B", "cli-2"))>>,
      rc |-> 0, stderr |-> ""],
     [lines |-> <<JsonLine(InitEvent("cli-1")),
                  JsonLine(AssistantEvent(<<TextBlock("Hi")>>))>>,
      rc |-> 0, stderr |-> ""],
     [lines |-> <<JsonLine(ResultEventNoSid(TRUE, "overloaded"))>>,
      rc |-> 0, stderr |-> ""]}

(***************************************************************************)
(* Two environments bound the search.  In "sessions" the clock runs, the   *)
(* server may be in either time zone and a client may present any session  *)
(* id, while the backend either succeeds or exits with code 1.  In "turns" *)
(* the backend may print any of BackendRuns and a client may submit any    *)
(* of MessageLists, at one hour of one day in UTC.                         *)
(* In "inputs" a client may also submit lists without a user message and   *)
(* the backend succeeds.  In "concurrent" two clients' requests are        *)
(* handled at once and the backend reports one of two tokens.  In         *)
(* "images" the last user message holds an image and the network may       *)
(* fail.  In "faults" an operation of the session store may raise.         *)
(***************************************************************************)
RunOkOther ==
    [lines |-> <<JsonLine(InitEvent("cli-2")),
                 JsonLine(ResultEvent(FALSE, "B", "cli-2"))>>,
     rc |-> 0, stderr |-> ""]

InputLists ==
    {<<ChatMessage("user", Str("Hello"))>>,
     <<ChatMessage("system", Str("Be brief"))>>,
     <<ChatMessage("user", Str("Bye")), ChatMessage("assistant", Str("Hi"))>>}

RunsOf(e) ==
    IF e = "turns" THEN BackendRuns
    ELSE IF e = "inputs" THEN {RunOk}
    ELSE IF e = "concurrent" THEN {RunOk, RunOkOther}
    ELSE IF e \in {"images", "faults"} THEN {RunOk}
    ELSE {RunOk, RunExit1}

MessageListsOf(e) ==
    IF e = "turns" THEN MessageLists
    ELSE IF e = "inputs" THEN InputLists
    ELSE IF e = "images" THEN ImageLists
    ELSE {<<ChatMessage("user", Str("Hello"))>>}

\* What the network answers when an image is downloaded.
FetchesOf(e) == IF e = "images" THEN Fetches ELSE {NoFetch}

\* A client can present the id of a session once a response has carried it.

HeadersOf(e) ==
    (IF e \in {"turns", "inputs", "concurrent", "images", "faults"} THEN {NoHeader} ELSE {NoHeader, "invalid-uuid"})
    \cup disclosed

(***************************************************************************)
(* A request: the inputs, the handler's locals, the response so far, and   *)
(* what was true when it arrived (the fields from unexpired on record      *)
(* history and are read by no action).                                     *)
(***************************************************************************)
IdleReq ==
    [pc |-> "idle", x_session_id |-> NoHeader, stream |-> FALSE, model |-> "",
     msgs |-> <<>>, session_id |-> Null, full_messages |-> <<>>,
     response_headers |-> Null, claude_session_id |-> Null,
     result |-> NoResultData, run |-> NoRun, chunks |-> <<>>, st |-> StreamInit,
     i |-> 1, status |-> 0, header |-> Null, content |-> "",
     usage |-> Usage(EmptyDict), detail |-> "",
     unexpired |-> FALSE, sessions_before |-> {},
     expires_before |-> IsoFormat(0), received_at |-> 0,
     new_session_id |-> Null, expires_at |-> IsoFormat(0), launched |-> 0, cmd |-> <<>>,
     input |-> EmptyInput]

Unexpired(session_id) ==
    /\ session_id \in DOMAIN sessions
    /\ Instant(sessions[session_id].expires_at) > DatetimeNow

\* The request moves on; a session id its response carries in X-Session-ID
\* is from then on known to the clients.
Set(p, r) ==
    /\ req' = [req EXCEPT ![p] = r]
    /\ disclosed' = disclosed \cup ({r.header} \ {Null})

(***************************************************************************)
(* chat_completions, lines 46-82.                                          *)
(***************************************************************************)
Receive(p) ==
    /\ req[p].pc = "idle"
    /\ turns < MaxTurns
    /\ turns' = turns + 1
    /\ \E x \in HeadersOf(env), stream \in BOOLEAN, model \in Models,
          msgs \in MessageListsOf(env) :
          Set(p, [IdleReq EXCEPT
                    !.pc = IF Truthy(x) THEN "session_exists" ELSE "create_session",
                    !.x_session_id = x, !.stream = stream, !.model = model,
                    !.msgs = msgs,
                    !.sessions_before = DOMAIN sessions,
                    !.received_at = now,
                    !.expires_before = IF x \in DOMAIN sessions
                                       THEN sessions[x].expires_at
                                       ELSE IsoFormat(0)])
    /\ UNCHANGED <<now, tz, sessions, messages, expected, clean, env, h>>

SessionExists(p) ==
    /\ req[p].pc = "session_exists"
    /\ Set(p, [req[p] EXCEPT
                 !.pc = IF session_exists(req[p].x_session_id)
                        THEN "get_session_messages" ELSE "create_session",
                 !.unexpired = Unexpired(req[p].x_session_id)])
    /\ UNCHANGED <<now, tz, sessions, messages, turns, expected, clean, env, h>>

Resolved(r, session_id, full_messages) ==
    [r EXCEPT !.pc = "get_claude_session_id",
              !.session_id = session_id,
              !.full_messages = full_messages,
              !.response_headers = session_id,
              !.status = IF r.stream THEN 200 ELSE 0,
              !.header = IF r.stream THEN session_id ELSE Null]

GetSessionMessages(p) ==
    /\ req[p].pc = "get_session_messages"
    /\ sessions' = TouchSession(req[p].x_session_id)
    /\ Set(p, Resolved(req[p], req[p].x_session_id,
                       get_session_messages(req[p].x_session_id) \o req[p].msgs))
    /\ UNCHANGED <<now, tz, messages, turns, expected, clean, env, h>>

\* create_session, database.py lines 59-70, in its two parts: the id and the
\* expiry are made (lines 60-61), then the connection is awaited and the row
\* inserted (lines 63-68).  The clock may advance in between.
CreateSession(p) ==
    /\ req[p].pc = "create_session"
    /\ Set(p, [req[p] EXCEPT !.pc = "insert_session", !.new_session_id = Uuid4,
                             !.expires_at = ExpiresAt])
    /\ expected' = [k \in DOMAIN expected \cup {Uuid4} |->
                      IF k = Uuid4 THEN <<>> ELSE expected[k]]
    /\ clean' = [k \in DOMAIN clean \cup {Uuid4} |->
                   IF k = Uuid4 THEN TRUE ELSE clean[k]]
    /\ UNCHANGED <<now, tz, sessions, messages, turns, env, h>>

InsertSessionRow(p) ==
    /\ req[p].pc = "insert_session"
    /\ sessions' = InsertSession(req[p].new_session_id, req[p].expires_at)
    /\ Set(p, Resolved(req[p], req[p].new_session_id, req[p].msgs))
    /\ UNCHANGED <<now, tz, messages, turns, expected, clean, env, h>>

(***************************************************************************)
(* An exception leaving chat_completions: FastAPI answers it from the      *)
(* exception alone (status, detail, the exception's own headers, here      *)
(* none), not from the Response object the handler set its header on.      *)
(***************************************************************************)
HttpError(r, status, detail) ==
    [r EXCEPT !.pc = "done", !.status = status, !.detail = detail, !.header = Null]

PersistPc(r) == IF r.i <= Len(r.msgs) THEN "add_message" ELSE "add_assistant"

(***************************************************************************)
(* complete_chat_with_session, lines 84-143.                               *)
(***************************************************************************)
GetClaudeSessionId(p) ==
    /\ req[p].pc = "get_claude_session_id"
    /\ Set(p, [req[p] EXCEPT
                 !.pc = IF req[p].stream THEN "stream_chat" ELSE "complete_chat",
                 !.claude_session_id = get_claude_session_id(req[p].session_id)])
    /\ UNCHANGED <<now, tz, sessions, messages, turns, expected, clean, env, h>>

\* AfterCompleteChat with a plausible slip: a failed invocation is tried again.
AfterCompleteChatRetrying(r, out) ==
    IF ~out.ok
    THEN IF r.launched < 2
         THEN [r EXCEPT !.pc = "complete_chat"]
         ELSE HttpError(r, 500, out.error)
    ELSE [r EXCEPT !.result = out.result,
                   !.pc = IF Truthy(out.result.claude_session_id)
                             /\ ~Truthy(r.claude_session_id)
                          THEN "set_claude_session_id"
                          ELSE PersistPc(r)]

\* AfterCompleteChat with a plausible slip: the turn is stored whether or not
\* the invocation succeeded.
AfterCompleteChatPersisting(r, out) ==
    IF ~out.ok
    THEN [r EXCEPT !.pc = PersistPc(r)]
    ELSE [r EXCEPT !.result = out.result,
                   !.pc = IF Truthy(out.result.claude_session_id)
                             /\ ~Truthy(r.claude_session_id)
                          THEN "set_claude_session_id"
                          ELSE PersistPc(r)]

AfterCompleteChat(r, out) ==
    IF ~out.ok
    THEN HttpError(r, 500, out.error)
    ELSE [r EXCEPT !.result = out.result,
                   !.pc = IF Truthy(out.result.claude_session_id)
                             /\ ~Truthy(r.claude_session_id)
                          THEN "set_claude_session_id"
                          ELSE PersistPc(r)]

CompleteChat(p) ==
    /\ req[p].pc = "complete_chat"
    /\ IF ~validate_model(req[p].model)
       THEN Set(p, HttpError(req[p], 400, ModelNotSupported(req[p].model)))
       ELSE \E fetch \in FetchesOf(env) :
            LET input == _format_messages_as_json(req[p].full_messages, fetch)
                cmd == _build_command(req[p].model, req[p].claude_session_id)
            IN  IF ~input.ok
                THEN Set(p, HttpError([req[p] EXCEPT !.input = input], 500,
                                      Raised(input.error).error))
                ELSE \E run \in RunsOf(env) :
                        Set(p, AfterCompleteChat(
                                 [req[p] EXCEPT !.run = run, !.cmd = cmd,
                                                !.input = input,
                                                !.launched = @ + 1],
                                 InterpretOutput(run)))
    /\ UNCHANGED <<now, tz, sessions, messages, turns, expected, clean, env, h>>

SetClaudeSessionId(p) ==
    /\ req[p].pc = "set_claude_session_id"
    /\ sessions' = set_claude_session_id(req[p].session_id,
                                         req[p].result.claude_session_id)
    /\ Set(p, [req[p] EXCEPT !.pc = PersistPc(req[p])])
    /\ UNCHANGED <<now, tz, messages, turns, expected, clean, env, h>>

(***************************************************************************)
(* The rows of a turn, lines 99-118 and 208-227: one add_message per       *)
(* submitted message, then one for the assistant's text.                   *)
(***************************************************************************)
AddMessage(p) ==
    /\ req[p].pc = "add_message"
    /\ messages' = add_message(req[p].session_id, req[p].msgs[req[p].i].role,
                               ContentForStorage(req[p].msgs[req[p].i].content))
    /\ Set(p, [req[p] EXCEPT !.i = @ + 1,
                             !.pc = PersistPc([req[p] EXCEPT !.i = @ + 1])])
    /\ UNCHANGED <<now, tz, sessions, turns, expected, clean, env, h>>

\* AssistantText with a plausible slip: the streamed turn stores the result field too.
AssistantTextFromResult(r) == ResponseContent(r.result)

\* AssistantText with a plausible slip: the buffer is overwritten by each
\* delta instead of growing.
AssistantTextLastDelta(r) ==
    IF r.stream
    THEN LET deltas == SelectSeq(r.st.frames, LAMBDA f : f.kind = "delta")
         IN  IF deltas = <<>> THEN "" ELSE deltas[Len(deltas)].content
    ELSE ResponseContent(r.result)

AssistantText(r) == IF r.stream THEN r.st.buffer ELSE ResponseContent(r.result)

\* The 200 response of a turn that was not streamed, lines 124-143.
Responded(r) ==
    [r EXCEPT !.pc = "done", !.status = 200, !.header = r.response_headers,
              !.content = ChatCompletionResponse(r.result).content,
              !.usage = ChatCompletionResponse(r.result).usage]

AddAssistant(p) ==
    /\ req[p].pc = "add_assistant"
    /\ messages' = add_message(req[p].session_id, "assistant", AssistantText(req[p]))
    /\ Set(p, IF req[p].stream
              THEN [req[p] EXCEPT !.pc = "done"]
              ELSE Responded(req[p]))
    /\ UNCHANGED <<now, tz, sessions, turns, expected, clean, env, h>>

(***************************************************************************)
(* stream_chat_completion_with_session, lines 145-237, driving             *)
(* ClaudeCodeInterface.stream_chat, lines 287-331.  Whatever is raised     *)
(* inside the generator becomes one error frame (lines 229-237).           *)
(***************************************************************************)
StreamFailed(r, msg) ==
    [r EXCEPT !.pc = "done", !.st.frames = Append(@, ErrorFrame(msg))]

StreamRaised(msg) == "Claude streaming execution failed: " \o msg

StreamChat(p) ==
    /\ req[p].pc = "stream_chat"
    /\ IF ~validate_model(req[p].model)
       THEN Set(p, StreamFailed(req[p], "400: " \o ModelNotSupported(req[p].model)))
       ELSE \E fetch \in FetchesOf(env) :
            LET input == _format_messages_as_json(req[p].full_messages, fetch)
                cmd == _build_command(req[p].model, req[p].claude_session_id)
            IN  IF ~input.ok
                THEN Set(p, StreamFailed([req[p] EXCEPT !.input = input],
                                         StreamRaised(input.error)))
                ELSE \E run \in RunsOf(env) :
                        Set(p, [req[p] EXCEPT !.pc = "stream_loop", !.run = run,
                                              !.cmd = cmd, !.input = input,
                                              !.launched = @ + 1,
                                              !.chunks = StreamChunks(run.lines)])
    /\ UNCHANGED <<now, tz, sessions, messages, turns, expected, clean, env, h>>

\* The session id the loop stores on this step (line 163-165), or Null: the
\* chunk just read carries one, and the generator awaits the store.
StreamStoredToken(r) ==
    IF /\ r.st.pending = <<>>
       /\ r.chunks # <<>>
       /\ StoresSessionId(r.st, Head(r.chunks), r.claude_session_id)
    THEN Head(r.chunks).session_id
    ELSE Null

\* After a frame has gone out: the loop is left once the frames of the
\* result event are out (line 206), and persistence is next.
AfterYield(r, st) ==
    [r EXCEPT !.st = st,
              !.pc = IF st.pending = <<>> /\ st.stopped THEN PersistPc(r)
                     ELSE "stream_loop"]

\* The generator from one suspension to the next: a frame of the chunk in
\* hand is yielded; or the token of the chunk just read is stored; or the
\* chunk is handled up to its first yield; or the output has ended.
StreamStep(r) ==
    IF r.st.pending # <<>>
    THEN AfterYield(r, YieldFrame(r.st))
    ELSE IF StreamStoredToken(r) # Null
    THEN [r EXCEPT !.st.stored = TRUE]
    ELSE IF r.chunks # <<>>
    THEN LET taken == HandleChunk(r.st, Head(r.chunks))
         IN  AfterYield([r EXCEPT !.chunks = Tail(@)],
                        IF taken.pending # <<>> THEN YieldFrame(taken) ELSE taken)
    ELSE IF r.run.rc # 0
    THEN StreamFailed(r, StreamRaised("Claude streaming failed: " \o r.run.stderr))
    ELSE [r EXCEPT !.pc = PersistPc(r)]

StreamNext(p) ==
    /\ req[p].pc = "stream_loop"
    /\ sessions' = IF StreamStoredToken(req[p]) # Null
                   THEN set_claude_session_id(req[p].session_id,
                                              StreamStoredToken(req[p]))
                   ELSE sessions
    /\ Set(p, StreamStep(req[p]))
    /\ UNCHANGED <<now, tz, messages, turns, expected, clean, env, h>>

(***************************************************************************)
(* The end of a request, and the bookkeeping the properties read: a turn   *)
(* that succeeded in the caller's eyes adds its submitted messages and     *)
(* the text the caller received to what the session should hold.           *)
(***************************************************************************)
HasFrame(r, kind) == \E k \in 1..Len(r.st.frames) : r.st.frames[k].kind = kind

Succeeded(r) ==
    IF r.stream THEN HasFrame(r, "done") /\ ~HasFrame(r, "error") ELSE r.status = 200

ReceivedText(r) == IF r.stream THEN DeltaText(r.st.frames) ELSE r.content

TurnRows(r) ==
    [k \in 1..(Len(r.msgs) + 1) |->
        IF k <= Len(r.msgs)
        THEN [role |-> r.msgs[k].role, content |-> ContentForStorage(r.msgs[k].content)]
        ELSE [role |-> "assistant", content |-> ReceivedText(r)]]

Finish(p) ==
    /\ req[p].pc = "done"
    /\ Set(p, IdleReq)
    /\ IF Succeeded(req[p])
       THEN /\ expected' = [expected EXCEPT ![req[p].session_id] = @ \o TurnRows(req[p])]
            /\ clean' = clean
       ELSE /\ expected' = expected
            /\ clean' = [clean EXCEPT ![req[p].session_id] = FALSE]
    /\ UNCHANGED <<now, tz, sessions, messages, turns, env, h>>

\* A tick is a third of a day.  The clock runs whatever the handlers do: a
\* tick may pass between any two awaits of a request.
Tick ==
    /\ now < MaxClock
    /\ now' = now + 1
    /\ UNCHANGED <<tz, sessions, messages, req, turns, expected, clean, env, h, disclosed>>

HarnessOff == [run |-> NoRun, agg |-> IdleReq, str |-> IdleReq]

Init ==
    /\ now = 0
    /\ tz \in TimeZones
    /\ sessions = [k \in {} |-> Null]
    /\ messages = <<>>
    /\ req = [p \in Procs |-> IdleReq]
    /\ turns = 0
    /\ expected = [k \in {} |-> Null]
    /\ clean = [k \in {} |-> Null]
    /\ env = "sessions"
    /\ disclosed = {}
    /\ h = HarnessOff

InitTurns ==
    /\ now = MaxClock - 1
    /\ tz = 0
    /\ sessions = [k \in {} |-> Null]
    /\ messages = <<>>
    /\ req = [p \in Procs |-> IdleReq]
    /\ turns = 0
    /\ expected = [k \in {} |-> Null]
    /\ clean = [k \in {} |-> Null]
    /\ env = "turns"
    /\ disclosed = {}
    /\ h = HarnessOff

Step(p) ==
    \/ Receive(p)
    \/ SessionExists(p)
    \/ GetSessionMessages(p)
    \/ CreateSession(p)
    \/ InsertSessionRow(p)
    \/ GetClaudeSessionId(p)
    \/ CompleteChat(p)
    \/ SetClaudeSessionId(p)
    \/ StreamChat(p)
    \/ StreamNext(p)
    \/ AddMessage(p)
    \/ AddAssistant(p)
    \/ Finish(p)

Next == Tick \/ \E p \in Procs : Step(p)

CleanupExpiredSessions ==
    /\ sessions' = cleanup_expired_sessions
    /\ UNCHANGED <<now, tz, messages, req, turns, expected, clean, env, h, disclosed>>

NextSessions == Next \/ CleanupExpiredSessions

Spec == Init /\ [][NextSessions]_vars

SpecTurns == InitTurns /\ [][Next]_vars

InitInputs ==
    /\ now = MaxClock - 1
    /\ tz = 0
    /\ sessions = [k \in {} |-> Null]
    /\ messages = <<>>
    /\ req = [p \in Procs |-> IdleReq]
    /\ turns = 0
    /\ expected = [k \in {} |-> Null]
    /\ clean = [k \in {} |-> Null]
    /\ env = "inputs"
    /\ disclosed = {}
    /\ h = HarnessOff

SpecInputs == InitInputs /\ [][Next]_vars

(***************************************************************************)
InitImages ==
    /\ now = MaxClock - 1
    /\ tz = 0
    /\ sessions = [k \in {} |-> Null]
    /\ messages = <<>>
    /\ req = [p \in Procs |-> IdleReq]
    /\ turns = 0
    /\ expected = [k \in {} |-> Null]
    /\ clean = [k \in {} |-> Null]
    /\ env = "images"
    /\ disclosed = {}
    /\ h = HarnessOff

SpecImages == InitImages /\ [][Next]_vars

(***************************************************************************)
(* A session-store operation that raises (aiosqlite: the database is       *)
(* locked, missing or unreadable).  Session resolution, lines 53-62, runs  *)
(* outside the handler's try block, so its exception leaves the handler    *)
(* and the server answers 500 without the handler's headers.  The other    *)
(* operations run inside a try block: lines 77-82 turn the exception into  *)
(* a 500 response with its text, lines 229-237 into an error frame.        *)
(***************************************************************************)
StoreError == "database is locked"

ResolutionPcs == {"session_exists", "get_session_messages", "insert_session"}

GuardedStorePcs ==
    {"get_claude_session_id", "set_claude_session_id", "add_message", "add_assistant"}

\* The store is awaited: at one of the steps above, or in the streaming
\* loop when the chunk just read carries a token to store (line 164).
AwaitsStore(r) ==
    \/ r.pc \in ResolutionPcs \cup GuardedStorePcs
    \/ r.pc = "stream_loop" /\ StreamStoredToken(r) # Null

StoreRaises(p) ==
    /\ AwaitsStore(req[p])
    /\ Set(p, IF req[p].pc \in ResolutionPcs
              THEN HttpError(req[p], 500, "Internal Server Error")
              ELSE IF req[p].stream
              THEN StreamFailed(req[p], StoreError)
              ELSE HttpError(req[p], 500, StoreError))
    /\ UNCHANGED <<now, tz, sessions, messages, turns, expected, clean, env, h>>

InitFaults ==
    /\ now = MaxClock - 1
    /\ tz = 0
    /\ sessions = [k \in {} |-> Null]
    /\ messages = <<>>
    /\ req = [p \in Procs |-> IdleReq]
    /\ turns = 0
    /\ expected = [k \in {} |-> Null]
    /\ clean = [k \in {} |-> Null]
    /\ env = "faults"
    /\ disclosed = {}
    /\ h = HarnessOff

NextFaults == Tick \/ \E p \in Procs : Step(p) \/ StoreRaises(p)

SpecFaults == InitFaults /\ [][NextFaults]_vars

(***************************************************************************)
(* Two requests in flight at once: each await in the handler is a point    *)
(* where the event loop may run the other request's handler.               *)
(***************************************************************************)
Clients == {1, 2}

InitConcurrent ==
    /\ now = 0
    /\ tz = 0
    /\ sessions = [k \in {} |-> Null]
    /\ messages = <<>>
    /\ req = [p \in Clients |-> IdleReq]
    /\ turns = 0
    /\ expected = [k \in {} |-> Null]
    /\ clean = [k \in {} |-> Null]
    /\ env = "concurrent"
    /\ disclosed = {}
    /\ h = HarnessOff

NextConcurrent == \E p \in Clients : Step(p)

SpecConcurrent == InitConcurrent /\ [][NextConcurrent]_vars

(***************************************************************************)
(* The interpreter alone: one backend output, any sequence of at most      *)
(* MaxLines lines with either exit code, is read once by complete_chat     *)
(* (and answered by complete_chat_with_session) and once, chunk by chunk,  *)
(* by the streaming loop.  Both turns are of session "uuid-1", which has   *)
(* no row in the store: the token is handed to the store (and recorded in  *)
(* h.stored), the rows of both turns go to the table messages.             *)
(***************************************************************************)
Lines ==
    {Malformed,
     JsonLine(InitEvent("cli-1")),
     JsonLine(AssistantEvent(<<TextBlock("He")>>)),
     JsonLine(AssistantEventSid(<<TextBlock("l"), ToolBlock, TextBlock(""),
                                  TextBlock("lo")>>, "cli-1")),
     JsonLine(ResultEvent(FALSE, "Hello", "cli-2")),
     JsonLine(ResultEventNoSid(FALSE, "He")),
     JsonLine(ResultEvent(TRUE, "overloaded", "cli-2"))}

BoundedSeq(S, n) == UNION {[1..k -> S] : k \in 0..n}

AllRuns ==
    {[lines |-> l, rc |-> rc, stderr |-> IF rc = 0 THEN "" ELSE "boom"] :
        l \in BoundedSeq(Lines, MaxLines), rc \in {0, 1}}

HarnessReq ==
    [IdleReq EXCEPT !.model = "sonnet",
                    !.msgs = <<ChatMessage("user", Str("Hello"))>>,
                    !.full_messages = <<ChatMessage("user", Str("Hello"))>>,
                    !.session_id = "uuid-1", !.response_headers = "uuid-1"]

Harness(run) ==
    [run |-> run,
     agg |-> [HarnessReq EXCEPT !.pc = "complete_chat"],
     str |-> [HarnessReq EXCEPT !.pc = "stream_loop", !.stream = TRUE,
                                !.status = 200, !.header = "uuid-1",
                                !.run = run, !.launched = 1,
                                !.chunks = StreamChunks(run.lines)],
     stored |-> [agg |-> Null, str |-> Null]]

InitInterp ==
    /\ now = 0
    /\ tz = 0
    /\ sessions = [k \in {} |-> Null]
    /\ messages = <<>>
    /\ req = [p \in Procs |-> IdleReq]
    /\ turns = 0
    /\ expected = [k \in {} |-> Null]
    /\ clean = [k \in {} |-> Null]
    /\ env = "interp"
    /\ disclosed = {}
    /\ h \in {Harness(run) : run \in AllRuns}

HarnessCompleteChat ==
    /\ h.agg.pc = "complete_chat"
    /\ h' = [h EXCEPT !.agg = AfterCompleteChat(
                                 [@ EXCEPT !.run = h.run, !.launched = 1],
                                 InterpretOutput(h.run))]
    /\ UNCHANGED <<now, tz, sessions, messages, req, turns, expected, clean, env, disclosed>>

\* The store calls a turn awaits once the backend has answered, lines 96-118
\* and 208-227, one call a step: the table messages after the call of r.
StoreCallRows(r) ==
    IF r.pc = "add_message"
    THEN add_message(r.session_id, r.msgs[r.i].role,
                     ContentForStorage(r.msgs[r.i].content))
    ELSE IF r.pc = "add_assistant"
    THEN add_message(r.session_id, "assistant", AssistantText(r))
    ELSE messages

\* The request after the call: the next call, or the end of the turn.
AfterStoreCall(r) ==
    IF r.pc = "set_claude_session_id"
    THEN [r EXCEPT !.pc = PersistPc(r)]
    ELSE IF r.pc = "add_message"
    THEN [r EXCEPT !.i = @ + 1, !.pc = PersistPc([r EXCEPT !.i = @ + 1])]
    ELSE IF r.stream THEN [r EXCEPT !.pc = "done"]
    ELSE Responded(r)

HarnessRespond ==
    /\ h.agg.pc \in {"set_claude_session_id", "add_message", "add_assistant"}
    /\ sessions' = IF h.agg.pc = "set_claude_session_id"
                   THEN set_claude_session_id(h.agg.session_id,
                                              h.agg.result.claude_session_id)
                   ELSE sessions
    /\ messages' = StoreCallRows(h.agg)
    /\ h' = [h EXCEPT !.agg = AfterStoreCall(@),
                      !.stored.agg = IF h.agg.pc = "set_claude_session_id"
                                     THEN h.agg.result.claude_session_id
                                     ELSE @]
    /\ UNCHANGED <<now, tz, req, turns, expected, clean, env, disclosed>>

HarnessStreamNext ==
    /\ h.str.pc = "stream_loop"
    /\ h' = [h EXCEPT !.str = StreamStep(@),
                      !.stored.str = IF StreamStoredToken(h.str) # Null
                                     THEN StreamStoredToken(h.str)
                                     ELSE @]
    /\ sessions' = IF StreamStoredToken(h.str) # Null
                   THEN set_claude_session_id(h.str.session_id, StreamStoredToken(h.str))
                   ELSE sessions
    /\ UNCHANGED <<now, tz, messages, req, turns, expected, clean, env, disclosed>>

\* The rows of the streamed turn, lines 208-227, one await each.
PersistRow ==
    /\ h.str.pc \in {"add_message", "add_assistant"}
    /\ messages' = StoreCallRows(h.str)
    /\ h' = [h EXCEPT !.str = AfterStoreCall(@)]
    /\ UNCHANGED <<now, tz, sessions, req, turns, expected, clean, env, disclosed>>

NextInterp == HarnessCompleteChat \/ HarnessRespond \/ HarnessStreamNext \/ PersistRow

SpecInterp == InitInterp /\ [][NextInterp]_vars

(***************************************************************************)
(* The translator alone: _format_messages_as_json applied once to a        *)
(* message list of at most MaxMessages messages, with one answer of the    *)
(* network to any GET.  Nothing is launched and nothing is stored.         *)
(***************************************************************************)
TranslateMessages ==
    {ChatMessage("system", Str("Be brief")),
     ChatMessage("system", Parts(<<TextPart("Be "), ImagePart(PngDataUrl),
                                   TextPart("kind")>>)),
     ChatMessage("user", Str("Hello")),
     ChatMessage("assistant", Str("Hi")),
     ChatMessage("user", Parts(<<ImagePart(RemoteUrl), [type |-> "audio"],
                                 ImagePart(TextDataUrl)>>))}
    \cup {ChatMessage("user", Parts(<<TextPart("Look"), ImagePart(url)>>)) :
            url \in ImageUrls}

NoOutput == [ok |-> FALSE, error |-> "", requests |-> <<>>]

InitTranslate ==
    /\ now = 0
    /\ tz = 0
    /\ sessions = [k \in {} |-> Null]
    /\ messages = <<>>
    /\ req = [p \in Procs |-> IdleReq]
    /\ turns = 0
    /\ expected = [k \in {} |-> Null]
    /\ clean = [k \in {} |-> Null]
    /\ env = "translate"
    /\ disclosed = {}
    /\ h \in {[pc |-> "format", messages |-> m, fetch |-> f, out |-> NoOutput] :
                m \in BoundedSeq(TranslateMessages, MaxMessages), f \in Fetches}

HarnessFormat ==
    /\ h.pc = "format"
    /\ h' = [h EXCEPT !.pc = "done",
                      !.out = _format_messages_as_json(h.messages, h.fetch)]
    /\ UNCHANGED <<now, tz, sessions, messages, req, turns, expected, clean, env, disclosed>>

SpecTranslate == InitTranslate /\ [][HarnessFormat]_vars

(***************************************************************************)
(* The blocking call alone: complete_chat has launched the backend and     *)
(* awaits process.communicate(), lines 223-229, which returns once the     *)
(* process has exited and closed its output.  The process exits exit_at    *)
(* ticks after the launch, or never; elapsed counts the ticks waited.      *)
(***************************************************************************)
Never == MaxWait + 1

InitBlocking ==
    /\ now = 0
    /\ tz = 0
    /\ sessions = [k \in {} |-> Null]
    /\ messages = <<>>
    /\ req = [p \in Procs |-> IdleReq]
    /\ turns = 0
    /\ expected = [k \in {} |-> Null]
    /\ clean = [k \in {} |-> Null]
    /\ env = "blocking"
    /\ disclosed = {}
    /\ h \in {[run |-> run, agg |-> [HarnessReq EXCEPT !.pc = "complete_chat"],
               str |-> IdleReq, exit_at |-> e, elapsed |-> 0] :
                run \in BackendRuns, e \in 0..Never}

BlockingWait ==
    /\ h.agg.pc = "complete_chat"
    /\ h.elapsed < MaxWait
    /\ h' = [h EXCEPT !.elapsed = @ + 1]
    /\ UNCHANGED <<now, tz, sessions, messages, req, turns, expected, clean, env, disclosed>>

BlockingCommunicate ==
    /\ h.agg.pc = "complete_chat"
    /\ h.exit_at # Never
    /\ h.elapsed >= h.exit_at
    /\ h' = [h EXCEPT !.agg = AfterCompleteChat(
                                 [@ EXCEPT !.run = h.run, !.launched = 1],
                                 InterpretOutput(h.run))]
    /\ UNCHANGED <<now, tz, sessions, messages, req, turns, expected, clean, env, disclosed>>

NextBlocking == BlockingWait \/ BlockingCommunicate \/ HarnessRespond

SpecBlocking == InitBlocking /\ [][NextBlocking]_vars

(***************************************************************************)
(* The streaming loop and its subprocess, stream_chat lines 293-327 and    *)
(* the route's loop, lines 161-206.  The process writes its lines one by   *)
(* one and may then exit; readline returns a line once written and returns *)
(* the end of the output once the process has exited.  The client may      *)
(* disconnect at any await or yield of the generator, the storing of the   *)
(* turn's rows included, which closes the generators.  Nothing in either   *)
(* generator terminates or kills the process.                              *)
(***************************************************************************)
InitCancel ==
    /\ now = 0
    /\ tz = 0
    /\ sessions = [k \in {} |-> Null]
    /\ messages = <<>>
    /\ req = [p \in Procs |-> IdleReq]
    /\ turns = 0
    /\ expected = [k \in {} |-> Null]
    /\ clean = [k \in {} |-> Null]
    /\ env = "cancel"
    /\ disclosed = {}
    /\ h \in {[run |-> run, agg |-> IdleReq,
               str |-> [Harness(run).str EXCEPT !.chunks = <<>>],
               written |-> 0, proc |-> "running"] : run \in AllRuns}

ProcWrite ==
    /\ h.proc = "running"
    /\ h.written < Len(h.run.lines)
    /\ h' = [h EXCEPT !.written = @ + 1,
                      !.str.chunks = @ \o StreamChunks(<<h.run.lines[h.written + 1]>>)]
    /\ UNCHANGED <<now, tz, sessions, messages, req, turns, expected, clean, env, disclosed>>

ProcExit ==
    /\ h.proc = "running"
    /\ h.written = Len(h.run.lines)
    /\ h' = [h EXCEPT !.proc = "exited"]
    /\ UNCHANGED <<now, tz, sessions, messages, req, turns, expected, clean, env, disclosed>>

\* The generator resumes: it yields a frame of the chunk in hand, or
\* readline returns and the line is handled up to its first yield.
ReadLine ==
    /\ h.str.pc = "stream_loop"
    /\ h.str.st.pending # <<>> \/ h.str.chunks # <<>> \/ h.proc = "exited"
    /\ h' = [h EXCEPT !.str = StreamStep(@)]
    /\ sessions' = IF StreamStoredToken(h.str) # Null
                   THEN set_claude_session_id(h.str.session_id, StreamStoredToken(h.str))
                   ELSE sessions
    /\ UNCHANGED <<now, tz, messages, req, turns, expected, clean, env, disclosed>>

\* The client goes away: the generator is closed at whichever await or yield
\* it is suspended at, until it has returned.
ClientCancel ==
    /\ h.str.pc \in {"stream_loop", "add_message", "add_assistant"}
    /\ h' = [h EXCEPT !.str.pc = "cancelled"]
    /\ UNCHANGED <<now, tz, sessions, messages, req, turns, expected, clean, env, disclosed>>

NextCancel == ProcWrite \/ ProcExit \/ ReadLine \/ PersistRow \/ ClientCancel

SpecCancel == InitCancel /\ [][NextCancel]_vars

(***************************************************************************)
(* What the properties speak of.                                           *)
(***************************************************************************)
ResultLines(lines) == SelectSeq(lines, IsResult)

WellFormedResult(ev) ==
    /\ {"type", "is_error", "result", "usage"} \subseteq DOMAIN ev
    /\ {"input_tokens", "output_tokens"} \subseteq DOMAIN ev.usage

EndsInSuccessfulResult(lines) ==
    /\ lines # <<>>
    /\ IsResult(lines[Len(lines)])
    /\ WellFormedResult(lines[Len(lines)].obj)
    /\ ~lines[Len(lines)].obj.is_error

StreamEnded(r) == r.stream /\ r.pc \in {"add_message", "add_assistant", "done"}

\* C1: a turn that is not streamed, whose backend exits with code 0 and prints
\* exactly one result event, well-formed and with is_error false, is answered
\* 200 with that event's result as the message content, its input_tokens as
\* prompt_tokens, its output_tokens as completion_tokens and their sum as
\* total_tokens.
C1_AggregateResponse ==
    (/\ h.agg.pc = "done"
     /\ h.run.rc = 0
     /\ Len(ResultLines(h.run.lines)) = 1
     /\ WellFormedResult(ResultLines(h.run.lines)[1].obj)
     /\ ~ResultLines(h.run.lines)[1].obj.is_error)
    => LET ev == ResultLines(h.run.lines)[1].obj
       IN  /\ h.agg.status = 200
           /\ h.agg.content = ev.result
           /\ h.agg.usage.prompt_tokens = ev.usage.input_tokens
           /\ h.agg.usage.completion_tokens = ev.usage.output_tokens
           /\ h.agg.usage.total_tokens = ev.usage.input_tokens + ev.usage.output_tokens

C1_Witness ==
    /\ h.agg.pc = "done"
    /\ h.run.rc = 0
    /\ Len(h.run.lines) = 3
    /\ ~h.run.lines[1].json
    /\ Len(ResultLines(h.run.lines)) = 1
    /\ IsResult(h.run.lines[2])
    /\ h.agg.status = 200
    /\ h.agg.content = "Hello"
    /\ h.agg.usage.total_tokens = 18

\* C2: for a backend output that ends in a successful result event, the text
\* deltas the streaming loop emits, joined in order, are the message content
\* the aggregate response gives for the same output.
C2_StreamEqualsAggregate ==
    (/\ h.run.rc = 0
     /\ EndsInSuccessfulResult(h.run.lines)
     /\ StreamEnded(h.str)
     /\ h.agg.pc = "done")
    => /\ h.agg.status = 200
       /\ DeltaText(h.str.st.frames) = h.agg.content

PostResolution(r) ==
    r.pc \in {"get_claude_session_id", "complete_chat", "set_claude_session_id",
              "stream_chat", "stream_loop", "add_message", "add_assistant", "done"}

LastResult(lines) == ResultLines(lines)[Len(ResultLines(lines))].obj

StoredPairs(session_id) ==
    [k \in 1..Len(SessionRows(session_id)) |->
        [role |-> SessionRows(session_id)[k].role,
         content |-> SessionRows(session_id)[k].content]]

Busy(session_id) ==
    \E p \in Procs : req[p].pc # "idle" /\ req[p].session_id = session_id

\* C3: when the backend's output ends without a result event, the turn ends in
\* an error in both modes: not streamed, the request fails with the 'no result
\* found' error; streamed, the client is sent an error frame and the turn is not
\* completed as if it had succeeded.
C3_NoResultIsError ==
    \A p \in Procs :
        (/\ req[p].pc = "done"
         /\ req[p].launched = 1
         /\ ResultLines(req[p].run.lines) = <<>>)
        => IF req[p].stream
           THEN HasFrame(req[p], "error")
           ELSE /\ req[p].status = 500
                /\ req[p].run.rc = 0
                   => req[p].detail
                      = "Claude execution failed: No result found in Claude output"

\* C4: a request presenting a session id that is not in the store ("invalid-uuid"
\* included) is handled without a session error: exactly one session is created
\* (the one row the table has gained since the request arrived is that
\* session's), and the id resolved and returned is that new id, never the
\* presented one.
C4_UnknownIdMintsSession ==
    \A p \in Procs :
        (/\ PostResolution(req[p])
         /\ Truthy(req[p].x_session_id)
         /\ req[p].x_session_id \notin req[p].sessions_before)
        => /\ req[p].session_id # req[p].x_session_id
           /\ req[p].session_id \notin req[p].sessions_before
           /\ req[p].session_id \in DOMAIN expected
           /\ DOMAIN sessions \ req[p].sessions_before \subseteq {req[p].session_id}
           /\ req[p].response_headers = req[p].session_id
           /\ req[p].header # Null => req[p].header = req[p].session_id
           /\ (req[p].pc = "done" /\ ~req[p].stream)
              => \/ req[p].status = 200 /\ req[p].header = req[p].session_id
                 \/ ~validate_model(req[p].model)
                 \/ ~InterpretOutput(req[p].run).ok

C4_Witness ==
    \E p \in Procs :
        /\ req[p].pc = "done"
        /\ req[p].x_session_id = "invalid-uuid"
        /\ req[p].sessions_before = {"uuid-1"}
        /\ req[p].status = 200
        /\ req[p].header = "uuid-2"
        /\ DOMAIN sessions = {"uuid-1", "uuid-2"}

\* C5: a request presenting the id of an existing session that has not expired
\* creates no session, resolves to the presented id, and handles the stored
\* history followed by the submitted messages.
C5_ValidSessionAccepted ==
    \A p \in Procs :
        (PostResolution(req[p]) /\ req[p].unexpired)
        => /\ req[p].session_id = req[p].x_session_id
           /\ DOMAIN sessions \subseteq req[p].sessions_before
           /\ req[p].pc = "get_claude_session_id"
              => req[p].full_messages
                 = get_session_messages(req[p].x_session_id) \o req[p].msgs

\* C6: a request presenting the id of a session whose expiry time has passed is
\* handled like one without a session: a session with another id is created,
\* and neither the old history nor the old backend token is used.
C6_ExpiredTreatedAsAbsent ==
    \A p \in Procs :
        (/\ PostResolution(req[p])
         /\ req[p].x_session_id \in req[p].sessions_before
         /\ ~req[p].unexpired)
        => /\ req[p].session_id # req[p].x_session_id
           /\ req[p].session_id \notin req[p].sessions_before
           /\ req[p].full_messages = req[p].msgs
           /\ req[p].claude_session_id = Null

\* C7: a request bearing the id of an existing, unexpired session reads and
\* extends it: after the request the session's last-accessed time is a time
\* of the request, not an earlier one, and its expiry is later than it was
\* before the request.
C7_ExpiryExtended ==
    \A p \in Procs :
        (/\ req[p].pc = "done"
         /\ req[p].unexpired
         /\ req[p].session_id = req[p].x_session_id
         /\ req[p].session_id \in DOMAIN sessions)
        => /\ Instant(sessions[req[p].session_id].last_accessed) >= req[p].received_at
           /\ TextGreater(sessions[req[p].session_id].expires_at,
                          req[p].expires_before)

\* C8: once a session has a backend session token, no later turn on the session,
\* streamed or not, changes it, whatever token the backend reports.
C8_TokenSetOnce ==
    [][\A sid \in DOMAIN sessions :
          Truthy(sessions[sid].claude_session_id)
          => sessions'[sid].claude_session_id = sessions[sid].claude_session_id]_vars

C8_Witness ==
    \E p \in Procs :
        /\ req[p].pc = "done"
        /\ req[p].stream
        /\ Succeeded(req[p])
        /\ req[p].session_id = req[p].x_session_id
        /\ Get(LastResult(req[p].run.lines), "session_id", Null) = "cli-2"
        /\ sessions[req[p].session_id].claude_session_id = "cli-1"

\* C9: after successfully completed turns on a session, streamed or not, the
\* session's history read in order is, turn after turn, the turn's submitted
\* messages in submission order followed by one assistant row with the text the
\* caller received: a turn of n messages adds n + 1 rows.
C9_HistoryIsTurnsInOrder ==
    /\ \A sid \in DOMAIN sessions :
          (clean[sid] /\ ~Busy(sid)) => StoredPairs(sid) = expected[sid]
    /\ \A p \in Procs :
          (/\ req[p].pc = "done"
           /\ Succeeded(req[p])
           /\ clean[req[p].session_id])
          => /\ StoredPairs(req[p].session_id)
                = expected[req[p].session_id] \o TurnRows(req[p])
             /\ Len(SessionRows(req[p].session_id))
                = Len(expected[req[p].session_id]) + Len(req[p].msgs) + 1

C9_Witness ==
    \E sid \in DOMAIN sessions :
        /\ clean[sid]
        /\ ~Busy(sid)
        /\ Len(expected[sid]) = 5
        /\ StoredPairs(sid) = expected[sid]
        /\ expected[sid][2] = [role |-> "assistant", content |-> "AB"]
        /\ expected[sid][5] = [role |-> "assistant", content |-> "Hi"]

\* C10: every response to a chat-completion request, streamed or not, of a turn
\* that succeeds or fails, carries the resolved session id in X-Session-ID.
C10_SessionHeaderOnEveryResponse ==
    \A p \in Procs : req[p].pc = "done" => req[p].header = req[p].session_id

RECURSIVE JoinTexts(_)
JoinTexts(parts) ==
    IF parts = <<>> THEN "" ELSE Head(parts).text \o JoinTexts(Tail(parts))

PlainText(content) ==
    IF IsStr(content) THEN content.str
    ELSE JoinTexts(SelectSeq(content.list, LAMBDA part : part.type = "text"))

WithRole(msgs, role) == SelectSeq(msgs, LAMBDA m : m.role = role)

Translated == h.pc = "done" /\ h.out.ok /\ ~h.out.empty

\* C11: when a message list with a user message is translated, the system field
\* of the backend input is the text of the last system message of the list (its
\* text parts concatenated when its content is a sequence), so no text of a
\* user or assistant message; with no system message there is no system field.
C11_SystemFieldIsLastSystemText ==
    Translated
    => LET sys == WithRole(h.messages, "system")
       IN  IF sys = <<>>
           THEN "system" \notin DOMAIN h.out.doc
           ELSE /\ "system" \in DOMAIN h.out.doc
                /\ h.out.doc.system = PlainText(sys[Len(sys)].content)
                /\ h.out.doc.system \notin {"Hello", "Hi", "Look"}

C11_Witness ==
    /\ Translated
    /\ Len(h.messages) = 3
    /\ h.messages[1] = ChatMessage("system", Str("Be brief"))
    /\ h.messages[2] = ChatMessage("user", Str("Hello"))
    /\ h.messages[3].role = "system"
    /\ h.out.doc.system = "Be kind"

PartsOf(content) ==
    IF IsStr(content) THEN <<TextPart(content.str)>>
    ELSE SelectSeq(content.list, LAMBDA part : part.type \in {"text", "image_url"})

AfterFirstComma(url) == SubSeq(url, IndexOf(url, ",") + 1, Len(url))

BlockComesFrom(block, part) ==
    IF part.type = "text"
    THEN block = [type |-> "text", text |-> part.text]
    ELSE /\ block.type = "image"
         /\ block.source.data = IF part.image_url.url[1] = "data:"
                                THEN AfterFirstComma(part.image_url.url)
                                ELSE Base64(h.fetch.body)

\* C12: when a message list with a user message is translated, the backend input
\* is one user turn and nothing else but the system field, and its content
\* blocks are, part by part, those of the last user message of the list: nothing
\* of an earlier user or assistant message is in the document.
C12_OneUserTurnFromLastUser ==
    Translated
    => LET users == WithRole(h.messages, "user")
           parts == PartsOf(users[Len(users)].content)
           blocks == h.out.doc.message.content
       IN  /\ DOMAIN h.out.doc \subseteq {"type", "message", "system"}
           /\ h.out.doc.type = "user"
           /\ DOMAIN h.out.doc.message = {"role", "content"}
           /\ h.out.doc.message.role = "user"
           /\ Len(blocks) = Len(parts)
           /\ \A k \in 1..Len(blocks) : BlockComesFrom(blocks[k], parts[k])

C12_Witness ==
    /\ Translated
    /\ Len(h.messages) = 3
    /\ h.messages[1] = ChatMessage("user", Str("Hello"))
    /\ h.messages[2].role = "user"
    /\ h.messages[3] = ChatMessage("assistant", Str("Hi"))
    /\ Len(h.out.doc.message.content) = 2
    /\ h.out.doc.message.content[1] = [type |-> "text", text |-> "Look"]
    /\ h.out.doc.message.content[2].source.data = <<"AAAA">>

Range(f) == {f[x] : x \in DOMAIN f}

\* The content parts _format_messages_as_json converts: those of the last user message.
ConvertedParts ==
    LET users == WithRole(h.messages, "user")
    IN  IF users = <<>> THEN <<>> ELSE PartsOf(users[Len(users)].content)

NonImageDataUri(url) == Len(url) > 1 /\ url[1] = "data:" /\ url[2] # "image/"

UnsupportedMediaType(text) ==
    "Invalid data URL format: Unsupported media type: " \o text

\* C13: when the message to translate holds an image reference that is a data
\* URI whose media type does not start with "image/", the translation fails
\* with the data-URL validation error (unless the download of an earlier image
\* of the message failed first) and the network is never asked for that URI.
C13_NonImageDataUriRejected ==
    \A k \in 1..Len(ConvertedParts) :
        (/\ h.pc = "done"
         /\ ConvertedParts[k].type = "image_url"
         /\ NonImageDataUri(ConvertedParts[k].image_url.url))
        => /\ ~h.out.ok
           /\ ConvertedParts[k].image_url.url \notin Range(h.out.requests)
           /\ \/ h.out.error \in {UnsupportedMediaType(t) : t \in {"text/plain", ""}}
              \/ /\ h.out.error = "Failed to download image: connection refused"
                 /\ ~h.fetch.ok
                 /\ \E j \in 1..(k - 1) :
                       /\ ConvertedParts[j].type = "image_url"
                       /\ ~StartsWith(ConvertedParts[j].image_url.url, "data:")

C13_Witness ==
    /\ h.pc = "done"
    /\ h.fetch.ok
    /\ Len(ConvertedParts) = 2
    /\ ConvertedParts[1] = ImagePart(RemoteUrl)
    /\ ConvertedParts[2] = ImagePart(TextDataUrl)
    /\ ~h.out.ok
    /\ h.out.error = UnsupportedMediaType("text/plain")
    /\ h.out.requests = <<RemoteUrl>>

ImageDataUri(url) ==
    Len(url) > 1 /\ url[1] = "data:" /\ url[2] = "image/" /\ IndexOf(url, ",") > 0

\* The tokens of url after "data:" and before its token number stop.
MediaTypeUpTo(url, stop) == SubSeq(url, 2, stop - 1)

FirstSemicolon(url) ==
    IF IndexOf(url, ";") > 0 THEN IndexOf(url, ";") ELSE IndexOf(url, ",")

FirstSemicolonOrComma(url) ==
    IF IndexOf(url, ";") > 0 /\ IndexOf(url, ";") < IndexOf(url, ",")
    THEN IndexOf(url, ";")
    ELSE IndexOf(url, ",")

ImageBlock(media_type, data) ==
    [type |-> "image",
     source |-> [type |-> "base64", media_type |-> media_type, data |-> data]]

\* The message translated holds text and data-URI images only.
OnlyDataUris ==
    \A k \in 1..Len(ConvertedParts) :
        ConvertedParts[k].type = "image_url" => ImageDataUri(ConvertedParts[k].image_url.url)

\* C14: an image part whose url is a data URI with an image/* media type becomes,
\* with no network call, one block {type: image, source: {type: base64,
\* media_type: M, data: P}}, M the text between "data:" and the first ";" of
\* the url and P everything after the first comma, unchanged.
C14_DataUriBlock ==
    (h.pc = "done" /\ OnlyDataUris /\ ConvertedParts # <<>>)
    => /\ h.out.ok
       /\ h.out.requests = <<>>
       /\ Len(h.out.doc.message.content) = Len(ConvertedParts)
       /\ \A k \in 1..Len(ConvertedParts) :
             ConvertedParts[k].type = "image_url"
             => LET url == ConvertedParts[k].image_url.url
                IN  h.out.doc.message.content[k]
                    = ImageBlock(MediaTypeUpTo(url, FirstSemicolon(url)),
                                 AfterFirstComma(url))

\* C14 as amended: M is the text between "data:" and the first ";" or ",",
\* whichever comes first.
C14_DataUriBlockAmended ==
    (h.pc = "done" /\ OnlyDataUris /\ ConvertedParts # <<>>)
    => /\ h.out.ok
       /\ h.out.requests = <<>>
       /\ Len(h.out.doc.message.content) = Len(ConvertedParts)
       /\ \A k \in 1..Len(ConvertedParts) :
             ConvertedParts[k].type = "image_url"
             => LET url == ConvertedParts[k].image_url.url
                IN  h.out.doc.message.content[k]
                    = ImageBlock(MediaTypeUpTo(url, FirstSemicolonOrComma(url)),
                                 AfterFirstComma(url))

C14_Witness ==
    /\ h.pc = "done"
    /\ ~h.fetch.ok
    /\ ConvertedParts = <<TextPart("Look"), ImagePart(ParamDataUrl)>>
    /\ h.out.ok
    /\ h.out.requests = <<>>
    /\ h.out.doc.message.content[2]
       = ImageBlock(<<"image/", "png">>, <<"AA", ",", ";", "AA">>)

\* C15: every chat-completion request that names a model outside the allow-list
\* is answered with HTTP 400 and a detail saying the model is not supported.
C15_UnsupportedModelIs400 ==
    \A p \in Procs :
        (req[p].pc = "done" /\ req[p].model \notin SUPPORTED_MODELS)
        => /\ req[p].status = 400
           /\ req[p].detail = ModelNotSupported(req[p].model)

\* The messages add_message appended to a session, in the order of the calls.
Appended(session_id) ==
    LET rows == SelectSeq(messages, LAMBDA r : r.session_id = session_id)
    IN  [k \in 1..Len(rows) |-> ChatMessage(rows[k].role, Str(rows[k].content))]

\* C16: for every session get_session_messages returns exactly the (role,
\* content) pairs add_message appended to it, in the order they were appended,
\* and a step only ever appends to the stored rows: none is changed or removed.
C16_MessagesInAppendOrder ==
    /\ [](\A sid \in DOMAIN sessions : get_session_messages(sid) = Appended(sid))
    /\ [][/\ Len(messages') >= Len(messages)
          /\ SubSeq(messages', 1, Len(messages)) = messages]_vars

C16_Witness ==
    \E sid \in DOMAIN sessions :
        /\ Len(get_session_messages(sid)) = 4
        /\ get_session_messages(sid) = Appended(sid)
        /\ SessionRows(sid)[1].timestamp = SessionRows(sid)[2].timestamp
        /\ SessionRows(sid)[2].timestamp # SessionRows(sid)[3].timestamp

\* The texts of the text blocks of one line of backend output, in order.
BlockTexts(line) ==
    IF line.json /\ ChunkType(line.obj) = "assistant"
    THEN LET tb == SelectSeq(line.obj.message.content,
                             LAMBDA b : Get(b, "type", Null) = "text")
         IN  [k \in 1..Len(tb) |-> Get(tb[k], "text", "")]
    ELSE <<>>

RECURSIVE TextsBeforeResult(_)
TextsBeforeResult(lines) ==
    IF lines = <<>> \/ IsResult(Head(lines)) THEN <<>>
    ELSE BlockTexts(Head(lines)) \o TextsBeforeResult(Tail(lines))

NonEmpty(texts) == SelectSeq(texts, LAMBDA t : t # "")

RECURSIVE JoinStrings(_)
JoinStrings(texts) ==
    IF texts = <<>> THEN "" ELSE Head(texts) \o JoinStrings(Tail(texts))

FramesOfKind(frames, kind) == SelectSeq(frames, LAMBDA f : f.kind = kind)

DeltaContents(frames) ==
    [k \in 1..Len(FramesOfKind(frames, "delta")) |->
        FramesOfKind(frames, "delta")[k].content]

IsPrefix(a, b) == Len(a) <= Len(b) /\ a = SubSeq(b, 1, Len(a))

\* C17: in a streamed turn the first result event makes the loop send one
\* terminal chunk with no content and finish_reason "stop", then one [DONE],
\* and stop reading: whatever the backend prints after it, no further frame is
\* sent and the text to persist is that of the events before it.
C17_StopsAtFirstResult ==
    LET frames == h.str.st.frames
        n == Len(frames)
    IN  /\ (h.str.stream /\ h.str.st.stopped /\ h.str.st.pending = <<>>)
           => /\ StreamEnded(h.str)
              /\ n >= 2
              /\ frames[n - 1] = [kind |-> "terminal", finish_reason |-> "stop"]
              /\ frames[n] = [kind |-> "done"]
              /\ \A k \in 1..(n - 2) : frames[k].kind = "delta"
              /\ n = Len(NonEmpty(TextsBeforeResult(h.run.lines))) + 2
              /\ h.str.st.buffer = JoinStrings(TextsBeforeResult(h.run.lines))
        /\ (StreamEnded(h.str) /\ ResultLines(h.run.lines) # <<>>)
           => h.str.st.stopped

C17_Witness ==
    /\ StreamEnded(h.str)
    /\ h.run.rc = 1
    /\ Len(h.run.lines) = 3
    /\ h.run.lines[1] = JsonLine(AssistantEvent(<<TextBlock("He")>>))
    /\ IsResult(h.run.lines[2])
    /\ IsResult(h.run.lines[3])
    /\ h.str.st.frames
       = <<DeltaFrame("He"), TerminalFrame, DoneFrame>>
    /\ h.str.st.buffer = "He"

\* C18: in a streamed turn every text block of every assistant event read
\* before the result event is sent as a delta of its own, the deltas in the
\* order of the events and of the blocks within an event.
C18_EveryTextBlockIsADelta ==
    /\ h.str.stream
       => IsPrefix(DeltaContents(h.str.st.frames), TextsBeforeResult(h.run.lines))
    /\ StreamEnded(h.str)
       => DeltaContents(h.str.st.frames) = TextsBeforeResult(h.run.lines)

\* C18 as amended: every text block with a text that is not empty.
C18_EveryNonEmptyTextBlockIsADelta ==
    /\ h.str.stream
       => IsPrefix(DeltaContents(h.str.st.frames),
                   NonEmpty(TextsBeforeResult(h.run.lines)))
    /\ StreamEnded(h.str)
       => DeltaContents(h.str.st.frames) = NonEmpty(TextsBeforeResult(h.run.lines))

C18_Witness ==
    /\ StreamEnded(h.str)
    /\ Len(h.run.lines) = 3
    /\ h.run.lines[1] = JsonLine(AssistantEvent(<<TextBlock("He")>>))
    /\ h.run.lines[2].json
    /\ "session_id" \in DOMAIN h.run.lines[2].obj
    /\ IsResult(h.run.lines[3])
    /\ DeltaContents(h.str.st.frames) = <<"He", "l", "lo">>

\* C19: in a streamed turn a failure met after the stream began, a backend exit
\* code other than 0 included, adds exactly one error frame after the deltas
\* sent so far, and a stream never just stops: it ends with the [DONE] marker
\* or with an error frame.
C19_ErrorFrameOnFailure ==
    StreamEnded(h.str)
    => LET frames == h.str.st.frames
       IN  /\ Len(FramesOfKind(frames, "error")) <= 1
           /\ (h.run.rc # 0 /\ ResultLines(h.run.lines) = <<>>)
              => /\ frames # <<>>
                 /\ frames[Len(frames)].kind = "error"
                 /\ \A k \in 1..(Len(frames) - 1) : frames[k].kind = "delta"
           /\ HasFrame(h.str, "done") \/ HasFrame(h.str, "error")

\* The wall-clock budget of a blocking call, in ticks.
TimeoutBudget == MaxWait - 1

\* C20: a turn that is not streamed fails with a timeout error once its backend
\* process has run past the wall-clock budget without completing, so the turn
\* ends even when the process never exits.
C20_BlockingTimesOut ==
    (h.elapsed > TimeoutBudget /\ h.exit_at > TimeoutBudget)
    => /\ h.agg.pc = "done"
       /\ h.agg.status = 500

\* C21: when the client of a streamed request disconnects while the backend
\* process runs, the process is terminated: once the request has ended, by
\* cancellation, by an error or by stopping at the result event, its process
\* is no longer running.
C21_NoProcessLeftRunning ==
    h.str.pc # "stream_loop" => h.proc # "running"

\* C22: when the effective message list holds no user message the translation
\* yields no input document and no backend process is run: a process is
\* launched only on an input document with a user turn.
C22_NoLaunchOnEmptyInput ==
    \A p \in Procs :
        /\ req[p].launched > 0 => ~req[p].input.empty
        /\ (req[p].pc = "done" /\ WithRole(req[p].full_messages, "user") = <<>>)
           => req[p].launched = 0

IsInit(line) ==
    /\ line.json
    /\ ChunkType(line.obj) = "system"
    /\ Get(line.obj, "subtype", Null) = "init"

InitLines(lines) == SelectSeq(lines, IsInit)

\* The token the claim describes: the result event's when it has one, else
\* the most recent initialisation event's, else none.
TokenOfEvents(lines) ==
    IF "session_id" \in DOMAIN LastResult(lines)
    THEN LastResult(lines).session_id
    ELSE IF InitLines(lines) = <<>>
    THEN Null
    ELSE Get(InitLines(lines)[Len(InitLines(lines))].obj, "session_id", Null)

\* C23: in aggregate mode the backend session token resolved from the output is
\* the result event's session id when it has one and otherwise the most recent
\* initialisation event's: a result event without a session id never erases
\* the initialisation event's token.
C23_ResultWithoutTokenKeepsInit ==
    h.agg.pc \in {"set_claude_session_id", "add_message", "add_assistant"}
    => h.agg.result.claude_session_id = TokenOfEvents(h.run.lines)

\* A backend invocation that failed: it exited with a non-zero code, printed
\* no result event, or its result event reports an error.
FailedInvocation(run) ==
    \/ run.rc # 0
    \/ ResultLines(run.lines) = <<>>
    \/ Get(LastResult(run.lines), "is_error", FALSE)

\* C24: a backend session token is stored only after an invocation that
\* succeeded: when a turn fails on a session that had no token when the turn
\* fetched it, the session still has no token at the end of the turn.
C24_FailedTurnStoresNoToken ==
    \A p \in Procs :
        (/\ req[p].pc = "done"
         /\ req[p].launched > 0
         /\ FailedInvocation(req[p].run)
         /\ ~Truthy(req[p].claude_session_id))
        => sessions[req[p].session_id].claude_session_id = Null

\* A request whose next step writes the session's backend token.
WritesToken(r) ==
    \/ r.pc = "set_claude_session_id"
    \/ r.pc = "stream_loop" /\ StreamStoredToken(r) # Null

\* C25: whatever the interleaving of concurrent requests on one session, the
\* session's backend token is written at most once: a request is about to
\* write the token only while the session has none.
C25_OneTokenWriteUnderInterleaving ==
    \A p \in DOMAIN req :
        WritesToken(req[p]) => sessions[req[p].session_id].claude_session_id = Null

\* A request on a session the server accepted, whose backend was handed a
\* user turn.
HandedUserTurn(r) ==
    /\ r.launched > 0
    /\ r.session_id = r.x_session_id
    /\ ~r.input.empty

\* C26: on an accepted session, whatever the list of new messages, the user
\* turn handed to the backend is built from the newly submitted messages (the
\* last user message among them), never from a message of the stored history.
C26_UserTurnFromNewMessages ==
    \A p \in Procs :
        HandedUserTurn(req[p])
        => LET users == WithRole(req[p].msgs, "user")
           IN  /\ users # <<>>
               /\ req[p].input.doc.message.content
                  = _convert_content_to_claude_format(users[Len(users)].content,
                                                      NoFetch).blocks

HasResume(cmd) == \E k \in 1..Len(cmd) : cmd[k] = "--resume"

\* The argument that follows the resume flag.
ResumeToken(cmd) == cmd[(CHOOSE k \in 1..Len(cmd) : cmd[k] = "--resume") + 1]

Launches(p) == req'[p].launched > req[p].launched

\* C27: the token a request fetches is the one stored for its session at that
\* moment, and the backend is launched with the resume flag exactly when that
\* token is not null, the flag then carrying that token; on a session the
\* request has just created the backend is launched without the flag.
C27_ResumeIffStoredToken ==
    [][\A p \in Procs :
          /\ (req[p].pc = "get_claude_session_id" /\ req'[p].pc # req[p].pc)
             => req'[p].claude_session_id
                = sessions[req[p].session_id].claude_session_id
          /\ Launches(p)
             => /\ HasResume(req'[p].cmd) <=> req[p].claude_session_id # Null
                /\ HasResume(req'[p].cmd)
                   => ResumeToken(req'[p].cmd) = req[p].claude_session_id
                /\ req[p].session_id \notin req[p].sessions_before
                   => ~HasResume(req'[p].cmd)]_vars

C27_Witness ==
    \E p \in Procs :
        /\ req[p].launched > 0
        /\ req[p].session_id = req[p].x_session_id
        /\ sessions[req[p].session_id].claude_session_id = "cli-2"
        /\ req[p].claude_session_id = "cli-2"
        /\ HasResume(req[p].cmd)
        /\ ResumeToken(req[p].cmd) = "cli-2"

\* C28: in aggregate mode a backend exit code other than 0 fails the request,
\* whatever the backend printed: one error response whose detail holds the
\* captured standard error text, and no response content.
C28_NonZeroExitFailsWithStderr ==
    (h.agg.pc = "done" /\ h.run.rc # 0)
    => /\ h.agg.status = 500
       /\ h.agg.detail
          = "Claude execution failed: Claude command failed: " \o h.run.stderr
       /\ h.agg.content = ""

C28_Witness ==
    /\ h.agg.pc = "done"
    /\ h.run.rc # 0
    /\ h.run.stderr = "boom"
    /\ EndsInSuccessfulResult(h.run.lines)
    /\ h.agg.status = 500

\* C29 as stated: in aggregate mode, when the result event (the last one
\* printed) has is_error true, whatever the exit code, the request fails with
\* an error whose detail holds the event's result field, and no response
\* content is returned.
C29_ErrorResultFailsWhateverExit ==
    (/\ h.agg.pc = "done"
     /\ ResultLines(h.run.lines) # <<>>
     /\ Get(LastResult(h.run.lines), "is_error", FALSE))
    => /\ h.agg.status = 500
       /\ h.agg.detail
          = "Claude execution failed: Claude returned error: "
            \o LastResult(h.run.lines).result
       /\ h.agg.content = ""

\* C29, amended: in aggregate mode, when the backend exits with code 0 and its
\* result event (the last one printed) has is_error true, the request fails
\* with an error whose detail holds the event's result field, and no response
\* content is returned.
C29_ErrorResultFailsWithMessage ==
    (/\ h.agg.pc = "done"
     /\ h.run.rc = 0
     /\ ResultLines(h.run.lines) # <<>>
     /\ Get(LastResult(h.run.lines), "is_error", FALSE))
    => /\ h.agg.status = 500
       /\ h.agg.detail
          = "Claude execution failed: Claude returned error: "
            \o LastResult(h.run.lines).result
       /\ h.agg.content = ""

C29_Witness ==
    /\ h.agg.pc = "done"
    /\ h.run.rc = 0
    /\ Len(ResultLines(h.run.lines)) = 1
    /\ LastResult(h.run.lines).is_error
    /\ LastResult(h.run.lines).result = "overloaded"
    /\ h.agg.status = 500
    /\ h.agg.content = ""

\* C30: in a streamed turn a result event with is_error true is a failure: the
\* client receives an error frame for it, the turn is not reported as a normal
\* stop (no stop frame, no [DONE] marker) and nothing of the turn is stored in
\* the session's history.
C30_StreamedErrorResultIsFailure ==
    \A p \in Procs :
        (/\ req[p].pc = "done"
         /\ req[p].stream
         /\ req[p].launched > 0
         /\ req[p].run.rc = 0
         /\ ResultLines(req[p].run.lines) # <<>>
         /\ Get(ResultLines(req[p].run.lines)[1].obj, "is_error", FALSE))
        => /\ HasFrame(req[p], "error")
           /\ ~HasFrame(req[p], "terminal")
           /\ ~HasFrame(req[p], "done")
           /\ clean[req[p].session_id]
              => StoredPairs(req[p].session_id) = expected[req[p].session_id]

\* A run with the lines that do not parse removed.
WithoutMalformed(run) ==
    [run EXCEPT !.lines = SelectSeq(run.lines, LAMBDA line : line.json)]

\* The streamed request run to the end of its loop.
RECURSIVE StreamToEnd(_)
StreamToEnd(r) == IF r.pc = "stream_loop" THEN StreamToEnd(StreamStep(r)) ELSE r

\* C31: in both modes lines that do not parse as JSON are skipped: the response
\* text, usage and resolved token or the error of an aggregate turn, and the
\* frames, buffer and stored-token flag of a streamed turn, are those of the
\* same output with the malformed lines removed.
C31_MalformedLinesAreNoise ==
    /\ h.agg.pc = "done"
       => LET out == InterpretOutput(WithoutMalformed(h.run))
          IN  IF out.ok
              THEN /\ h.agg.status = 200
                   /\ h.agg.content = ResponseContent(out.result)
                   /\ h.agg.usage = Usage(out.result)
                   /\ h.agg.result.claude_session_id = out.result.claude_session_id
              ELSE /\ h.agg.status = 500
                   /\ h.agg.detail = out.error
    /\ h.str.pc # "stream_loop"
       => LET clean_end == StreamToEnd(Harness(WithoutMalformed(h.run)).str)
          IN  /\ h.str.st = clean_end.st
              /\ clean_end.pc = "done" => h.str.pc = "done"
              /\ h.str.pc # "done" => clean_end.pc = "add_message"

C31_Witness ==
    /\ h.agg.pc = "done"
    /\ h.str.pc # "stream_loop"
    /\ Len(h.run.lines) = 3
    /\ IsInit(h.run.lines[1])
    /\ ~h.run.lines[2].json
    /\ IsResult(h.run.lines[3])
    /\ h.run.rc = 0
    /\ h.agg.status = 200
    /\ h.agg.result.claude_session_id = "cli-2"
    /\ HasFrame(h.str, "done")

\* A finished request that was aborted: no backend process was launched, the
\* caller got no text, and the session holds the rows it held before the turn.
Aborted(r) ==
    /\ r.launched = 0
    /\ ~Succeeded(r)
    /\ ReceivedText(r) = ""
    /\ IF r.stream THEN HasFrame(r, "error") ELSE r.status = 500
    /\ clean[r.session_id] => StoredPairs(r.session_id) = expected[r.session_id]

\* The image references of the last user message of a list.
LastUserImages(msgs) ==
    LET users == WithRole(msgs, "user")
    IN  IF users = <<>> \/ IsStr(users[Len(users)].content) THEN {}
        ELSE {part.image_url.url :
                part \in {users[Len(users)].content.list[k] :
                            k \in 1..Len(users[Len(users)].content.list)}
                         \cap [type : {"image_url"}, image_url : [url : ImageUrls]]}

\* C32: when an image of the latest user message cannot be resolved (a data
\* URI that is invalid or not an image, or a download that fails) the whole
\* request is aborted: no backend process, no text or delta for the caller,
\* no rows written for the turn.
C32_ImageFailureAbortsRequest ==
    \A p \in Procs :
        (/\ req[p].pc = "done"
         /\ validate_model(req[p].model)
         /\ \/ LastUserImages(req[p].full_messages) \cap {TextDataUrl, NoCommaDataUrl} # {}
            \/ ~req[p].input.ok)
        => Aborted(req[p])

C32_Witness ==
    \E p \in Procs :
        /\ req[p].pc = "done"
        /\ req[p].stream
        /\ req[p].model = "sonnet"
        /\ RemoteUrl \in LastUserImages(req[p].full_messages)
        /\ ~req[p].input.ok
        /\ req[p].input.requests = <<RemoteUrl>>
        /\ Aborted(req[p])

\* C33: a model name outside the allow-list never reaches the process invoker:
\* in both modes, for a request with an unsupported model, no backend process
\* is launched, no image is fetched, and no message row and no backend token
\* is written.
C33_UnsupportedModelReachesNothing ==
    \A p \in Procs :
        (req[p].pc = "done" /\ req[p].model \notin SUPPORTED_MODELS)
        => /\ req[p].launched = 0
           /\ req[p].input.requests = <<>>
           /\ ~Succeeded(req[p])
           /\ clean[req[p].session_id]
              => StoredPairs(req[p].session_id) = expected[req[p].session_id]
           /\ sessions[req[p].session_id].claude_session_id
              = req[p].claude_session_id

C33_Witness ==
    \E p \in Procs :
        /\ req[p].pc = "done"
        /\ req[p].stream
        /\ req[p].model = "unknown-model"
        /\ RemoteUrl \in LastUserImages(req[p].full_messages)
        /\ req[p].session_id = req[p].x_session_id
        /\ sessions[req[p].session_id].claude_session_id = "cli-1"
        /\ req[p].launched = 0

\* C34: a request launches at most one backend process, its own: after the
\* launch the request is never again at a point where it launches one, so a
\* failed invocation is not retried.
C34_AtMostOneLaunchPerRequest ==
    \A p \in Procs :
        /\ req[p].launched <= 1
        /\ req[p].launched = 1 => req[p].pc \notin {"complete_chat", "stream_chat"}
        /\ req[p].pc = "idle" => req[p].launched = 0

C34_Witness ==
    \E p \in Procs :
        /\ req[p].pc = "done"
        /\ ~req[p].stream
        /\ req[p].launched = 1
        /\ req[p].run.rc # 0
        /\ req[p].status = 500

\* C37: a turn that is not streamed and fails leaves the session's stored
\* state as it was before the backend was invoked: no row of the turn is
\* stored, neither a submitted message nor a reply, and the backend token is
\* the one the turn fetched.
C37_FailedAggregateTurnStoresNothing ==
    \A p \in Procs :
        (/\ req[p].pc = "done"
         /\ ~req[p].stream
         /\ req[p].session_id \in DOMAIN sessions
         /\ req[p].launched = 0 \/ FailedInvocation(req[p].run))
        => /\ clean[req[p].session_id]
              => StoredPairs(req[p].session_id) = expected[req[p].session_id]
           /\ sessions[req[p].session_id].claude_session_id
              = req[p].claude_session_id

C37_Witness ==
    \E p \in Procs :
        /\ req[p].pc = "done"
        /\ ~req[p].stream
        /\ req[p].status = 500
        /\ req[p].launched = 1
        /\ ResultLines(req[p].run.lines) # <<>>
        /\ LastResult(req[p].run.lines).is_error
        /\ req[p].session_id = req[p].x_session_id
        /\ Len(SessionRows(req[p].session_id)) > 0
        /\ sessions[req[p].session_id].claude_session_id = "cli-2"

\* C36: a streamed turn writes no row while its loop runs, and once a turn that
\* met a result event has ended, the session holds, after what it held before,
\* the turn's submitted messages and then exactly one assistant row whose
\* content is the concatenation, in order, of the deltas sent to the client.
C36_OneAssistantRowOfAllDeltas ==
    \A p \in Procs :
        (req[p].stream /\ req[p].session_id \in DOMAIN sessions
            /\ clean[req[p].session_id])
        => LET rows == StoredPairs(req[p].session_id)
               before == expected[req[p].session_id]
               n == Len(req[p].msgs)
           IN  /\ req[p].pc \in {"get_claude_session_id", "stream_chat", "stream_loop"}
                  => rows = before
               /\ (req[p].pc = "done" /\ ResultLines(req[p].run.lines) # <<>>)
                  => /\ Len(rows) = Len(before) + n + 1
                     /\ SubSeq(rows, 1, Len(before)) = before
                     /\ \A k \in 1..n :
                           rows[Len(before) + k]
                           = [role |-> req[p].msgs[k].role,
                              content |-> ContentForStorage(req[p].msgs[k].content)]
                     /\ rows[Len(rows)]
                        = [role |-> "assistant",
                           content |-> JoinStrings(DeltaContents(req[p].st.frames))]

C36_Witness ==
    \E p \in Procs :
        /\ req[p].pc = "done"
        /\ req[p].stream
        /\ clean[req[p].session_id]
        /\ DeltaContents(req[p].st.frames) = <<"A", "B">>
        /\ Len(req[p].msgs) = 2
        /\ Len(StoredPairs(req[p].session_id)) = 6
        /\ StoredPairs(req[p].session_id)[6] = [role |-> "assistant", content |-> "AB"]

\* C35: an error raised by the session store while the session is resolved
\* (existence check, history load, session creation) never fails the request:
\* every request that ends was resolved to a session, and none ends with the
\* server's answer to an unhandled exception.
C35_ResolutionErrorsDegrade ==
    \A p \in Procs :
        req[p].pc = "done"
        => /\ req[p].session_id \in DOMAIN sessions
           /\ ~(req[p].status = 500 /\ req[p].detail = "Internal Server Error")

\* C38: in a streamed response the [DONE] marker, when sent, is the last
\* frame: no delta, stop frame or error frame follows it, also when storing
\* the turn fails after the result event.
C38_DoneMarkerIsLast ==
    \A p \in Procs :
        \A k \in 1..Len(req[p].st.frames) :
            req[p].st.frames[k].kind = "done" => k = Len(req[p].st.frames)

\* Rows or messages that are whole turns of one user message and its reply.
WholeTurns(rows) ==
    /\ Len(rows) % 2 = 0
    /\ \A k \in 1..Len(rows) :
          rows[k].role = IF k % 2 = 1 THEN "user" ELSE "assistant"

\* No request is at work on the session.
Quiet(session_id) ==
    \A p \in DOMAIN req :
        req[p].session_id = session_id => req[p].pc \in {"idle", "done"}

\* The history a request loaded: its effective list without its own messages.
LoadedHistory(r) == SubSeq(r.full_messages, 1, Len(r.full_messages) - Len(r.msgs))

\* C39: whatever the interleaving of concurrent requests on one session, the
\* rows of a turn are stored together, the submitted message directly followed
\* by its reply, and a request that loads the history never sees a submitted
\* message without its reply.  (Every turn here submits one user message.)
C39_TurnRowsContiguous ==
    /\ \A sid \in DOMAIN sessions : Quiet(sid) => WholeTurns(StoredPairs(sid))
    /\ \A p \in DOMAIN req :
          req[p].session_id \in DOMAIN sessions => WholeTurns(LoadedHistory(req[p]))

\* C40: for one backend event sequence on a session without a stored token,
\* a streamed turn and a turn that is not streamed, both successful, store
\* the same backend token: the result event's session id when it has one, the
\* initialisation event's only otherwise.
C40_BothModesStoreSameToken ==
    (/\ h.agg.pc = "done"
     /\ h.agg.status = 200
     /\ h.str.pc # "stream_loop"
     /\ HasFrame(h.str, "done"))
    => /\ h.stored.str = h.stored.agg
       /\ h.stored.str = TokenOfEvents(h.run.lines)

====
